---- MODULE Spec2Model ----
(***************************************************************************)
(* A model of nikola's build-task derivation (src/nikola/nikola.py and     *)
(* src/nikola/tools/utils.py): the staleness fingerprint config_changed,   *)
(* the path resolver, rel_link, and the task generators.                   *)
(*                                                                         *)
(* Each component has its own specification (SpecFP, SpecRelLink, ...);    *)
(* the variables of the other components keep their initial value there.   *)
(*                                                                         *)
(* Strings that the code builds by concatenation or formatting are         *)
(* sequences of tokens (<<"index", "-", "1", ".html">>); the tokens are    *)
(* chosen so that no string has two tokenisations, hence equality of token *)
(* sequences is equality of the strings.                                   *)
(***************************************************************************)
EXTENDS Integers, Sequences, FiniteSets, TLC

VARIABLES
    \* ---- config_changed (nikola.py 28-51) and the executor's store ----
    cc_config,      \* config_changed.config: a str, a dict or another object
    values,         \* the persisted values of the task: values.get('_config_changed')
    task_actions,   \* the save actions inserted into the task by the last check
    cc_result,      \* what the last __call__ returned: "none", "True", "False", "raised"
    cc_pc,          \* "idle" (between builds), "checked" (the check returned)
    cc_built,       \* the config of the last successful run ("none" before it)
    cc_twin,        \* a second dict, filled in an order of its own
    cc_digests,     \* the digests of cc_config and cc_twin, once computed
    \* ---- Nikola.rel_link (nikola.py 280-299) ----
    rl_src,         \* the src argument
    rl_dst,         \* the dst argument
    rl_result,      \* what rel_link returned ([t |-> "none"] before the call)
    \* ---- Nikola.path (nikola.py 218-275) ----
    path_args,      \* two calls of path: <<[kind, name, lang], [kind, name, lang]>>
    path_out,       \* what the two calls returned (<<>> before them)
    \* ---- gen_task_copy_files (nikola.py 943-967), copy_tree (utils.py 75-104) ----
    fs_files,       \* the files under the FILES_FOLDERS trees: [folder, dir, name]
    files_folders,  \* self.config['FILES_FOLDERS']
    out_dirs,       \* the directories that exist under the output folder
    copy_tasks,     \* the task descriptions gen_task_copy_files yielded
    copy_pc,        \* "start", "done", "idle"
    \* ---- gen_task_render_galleries (nikola.py 774-904) and its execution ----
    galleries,      \* galleries/*: name -> [images, index_txt, index_html, out_isdir]
    Image,          \* whether the imaging library can be imported
    gal_tasks,      \* the task descriptions gen_task_render_galleries yielded
    gal_done,       \* the positions in gal_tasks of the tasks that have run
    gal_written,    \* the files the tasks that have run wrote
    gal_text,       \* gallery index target -> the context['text'] it was rendered with
    gal_pc,         \* "start", "derived", "idle"
    \* ---- the Nikola object, scan_posts and gen_task_render_indexes ----
    post_files,     \* the source files the post_pages wildcards match
    site_config,    \* self.config: [BLOG_TITLE, TRANSLATIONS]
    scanned,        \* self._scanned
    timeline,       \* self.timeline
    cache,          \* mako_templates.cache: template name -> list of files
    index_tasks,    \* the task descriptions of the latest derivation
    prev_build,     \* the configuration and the tasks of the derivation before it
    builds,         \* the configurations of the derivations made, the latest last
    \* ---- Post.__init__ (nikola.py 57-106) ----
    source_file,    \* the source file of the post, its metadata files with it
    post_translations, \* the translations argument
    post_obj,       \* the Post constructed, or the exception raised
    \* ---- scan_posts (nikola.py 384-404), gen_task_render_archive (595-654) ----
    src_files,      \* the source files, their metadata files with them
    sc_translations, \* self.config['TRANSLATIONS']
    global_data,    \* self.global_data: post name -> Post
    posts_per_year, \* self.posts_per_year: str(year) -> list of post names
    posts_per_tag,  \* self.posts_per_tag: tag -> list of post names
    sc_timeline,    \* self.timeline
    sc_scanned,     \* self._scanned
    sc_raised,      \* the exception that ended the process ("none": none did)
    sc_calls,       \* how many calls of scan_posts returned
    archive_tasks,  \* the task descriptions gen_task_render_archive yielded
    \* ---- Nikola.__init__ (nikola.py 166-212) and gen_tasks (309-382) ----
    gt_config,      \* the keys of conf.py
    gt_emitted,     \* the basenames of the task descriptions yielded so far
    gt_raised,      \* the exception that ended the process ("none": none did)
    gt_pc,          \* the next yield statement of gen_tasks (0: no Nikola object yet)
    \* ---- CompileHtmlGetter (utils.py 117-163) ----
    post_compilers, \* self.post_compilers: backend -> list of extensions
    inverse_post_compilers, \* self.inverse_post_compilers: extension -> compiler
    ch_returned,    \* the calls made and what each returned, the latest last
    ch_exited,      \* whether a call ended the process with exit()
    \* ---- gen_task_redirect, gen_task_copy_files, gen_task_copy_assets ----
    redirections,   \* self.config['REDIRECTIONS']
    sen_files,      \* the files under the FILES_FOLDERS trees
    sen_folders,    \* self.config['FILES_FOLDERS']
    theme_assets,   \* the files under the assets folders of the theme chain
    sen_tasks,      \* category -> the task descriptions its generator yielded
    sen_pc,         \* the categories whose generator has run
    \* ---- the executor over the categories of gen_tasks (nikola.py 309-382, 1072-1132) ----
    ex_counts,      \* category -> the number of task descriptions its generator yielded
    ex_done,        \* the tasks that have been run, as <<category, number>>
    \* ---- gen_task_render_tags (nikola.py 656-729), generic_rss_renderer (utils.py 181-206) ----
    tg_files,       \* the source files of the site
    tg_translations, \* self.config['TRANSLATIONS'], a dict
    tg_tasks,       \* the task descriptions gen_task_render_tags yielded
    tg_derived,     \* whether gen_task_render_tags has run
    tg_feeds,       \* the feeds written: output path -> the items of the feed
    \* ---- gen_task_render_posts (nikola.py 486-516), gen_task_render_pages (437-455) ----
    pg_files,       \* the source files of the site
    pg_translations, \* self.config['TRANSLATIONS'], a dict
    pg_tasks,       \* the task descriptions yielded, those of render_posts first
    pg_pc,          \* the generators that have run
    pg_done,        \* the positions in pg_tasks of the tasks the executor has run
    \* ---- utils.get_theme_chain (utils.py 33-51) ----
    tc_parents,     \* theme -> the first line of its parent file, stripped (<<>>: no such file)
    tc_theme,       \* the theme asked for
    tc_themes,      \* themes, the chain so far
    tc_pc           \* "loop", "done" (returned) or "raised"

fpVars == <<cc_config, values, task_actions, cc_result, cc_pc, cc_built, cc_twin,
            cc_digests>>

rlVars == <<rl_src, rl_dst, rl_result>>

pathVars == <<path_args, path_out>>

copyVars == <<fs_files, files_folders, out_dirs, copy_tasks, copy_pc>>

galVars == <<galleries, Image, gal_tasks, gal_done, gal_written, gal_text, gal_pc>>

siteVars == <<post_files, site_config, scanned, timeline, cache, index_tasks, prev_build,
              builds>>

postVars == <<source_file, post_translations, post_obj>>

scanVars == <<src_files, sc_translations, global_data, posts_per_year, posts_per_tag,
              sc_timeline, sc_scanned, sc_raised, sc_calls, archive_tasks>>

genVars == <<gt_config, gt_emitted, gt_raised, gt_pc>>

compVars == <<post_compilers, inverse_post_compilers, ch_returned, ch_exited>>

senVars == <<redirections, sen_files, sen_folders, theme_assets, sen_tasks, sen_pc>>

exVars == <<ex_counts, ex_done>>

tagVars == <<tg_files, tg_translations, tg_tasks, tg_derived, tg_feeds>>

pageVars == <<pg_files, pg_translations, pg_tasks, pg_pc, pg_done>>

chainVars == <<tc_parents, tc_theme, tc_themes, tc_pc>>

vars == <<fpVars, rlVars, pathVars, copyVars, galVars, siteVars,
          postVars, scanVars, genVars, compVars, senVars, exVars,
          tagVars, pageVars, chainVars>>

\* What the actions of one component leave alone: the other components.
notFP == <<rlVars, pathVars, copyVars, galVars, siteVars, postVars,
    scanVars, genVars, compVars, senVars, exVars, tagVars,
    pageVars, chainVars>>

notRL == <<fpVars, pathVars, copyVars, galVars, siteVars, postVars,
    scanVars, genVars, compVars, senVars, exVars, tagVars,
    pageVars, chainVars>>

notPath == <<fpVars, rlVars, copyVars, galVars, siteVars, postVars,
    scanVars, genVars, compVars, senVars, exVars, tagVars,
    pageVars, chainVars>>

notCopy == <<fpVars, rlVars, pathVars, galVars, siteVars, postVars,
    scanVars, genVars, compVars, senVars, exVars, tagVars,
    pageVars, chainVars>>

notGal == <<fpVars, rlVars, pathVars, copyVars, siteVars, postVars,
    scanVars, genVars, compVars, senVars, exVars, tagVars,
    pageVars, chainVars>>

notSite == <<fpVars, rlVars, pathVars, copyVars, galVars, postVars,
    scanVars, genVars, compVars, senVars, exVars, tagVars,
    pageVars, chainVars>>

notPost == <<fpVars, rlVars, pathVars, copyVars, galVars, siteVars,
    scanVars, genVars, compVars, senVars, exVars, tagVars,
    pageVars, chainVars>>

notScan == <<fpVars, rlVars, pathVars, copyVars, galVars, siteVars,
    postVars, genVars, compVars, senVars, exVars, tagVars,
    pageVars, chainVars>>

notGen == <<fpVars, rlVars, pathVars, copyVars, galVars, siteVars,
    postVars, scanVars, compVars, senVars, exVars, tagVars,
    pageVars, chainVars>>

notComp == <<fpVars, rlVars, pathVars, copyVars, galVars, siteVars,
    postVars, scanVars, genVars, senVars, exVars, tagVars,
    pageVars, chainVars>>

notSen == <<fpVars, rlVars, pathVars, copyVars, galVars, siteVars,
    postVars, scanVars, genVars, compVars, exVars, tagVars,
    pageVars, chainVars>>

notEx == <<fpVars, rlVars, pathVars, copyVars, galVars, siteVars,
    postVars, scanVars, genVars, compVars, senVars, tagVars,
    pageVars, chainVars>>

notTag == <<fpVars, rlVars, pathVars, copyVars, galVars, siteVars,
    postVars, scanVars, genVars, compVars, senVars, exVars,
    pageVars, chainVars>>

notPage == <<fpVars, rlVars, pathVars, copyVars, galVars, siteVars,
    postVars, scanVars, genVars, compVars, senVars, exVars,
    tagVars, chainVars>>

notChain == <<fpVars, rlVars, pathVars, copyVars, galVars, siteVars,
    postVars, scanVars, genVars, compVars, senVars, exVars,
    tagVars, pageVars>>

(***************************************************************************)
(* A CPython 2 dict, as cPickle.dumps(self.config) walks it (nikola.py 38):*)
(* an open-addressing table of 8 slots (32 once it has grown); pickling    *)
(* emits the items in slot order. A slot is empty, a dummy (a deleted      *)
(* entry) or active. Keys are strings; a value is held as its pickle.      *)
(***************************************************************************)
EmptySlot == [st |-> "empty", k |-> "", v |-> <<>>]

DummySlot == [st |-> "dummy", k |-> "", v |-> <<>>]

NewTable(size) == [i \in 0 .. size - 1 |-> EmptySlot]

EmptyDict == NewTable(8)

Size(tab) == Cardinality(DOMAIN tab)

\* hash(key) of CPython 2 (64-bit build, no -R), its low 28 bits: the bits
\* that the first five probes of a lookup read; the tables built here take
\* the same slots with them as with the whole hash.
KeyHash(k) ==
    CASE k = "en" -> 85502595
      [] k = "es" -> 85502622
      [] k = "pt" -> 153285926
      [] k = "translations" -> 145215564
      [] k = "output_folder" -> 54830383
      [] k = "post_pages" -> 156355853
      [] k = "default_lang" -> 137275074
      [] k = "timeline" -> 205697737
      [] k = "messages" -> 191021804
      [] k = "blog_title" -> 136632605
      [] k = "blog_url" -> 224132086
      [] k = "blog_description" -> 2869503
      [] k = "thumbnail_size" -> 24173990
      [] k = "redirections" -> 157216849
      [] k = "files_folders" -> 36833530
      [] k = "themes" -> 73779216
      [] k = "post" -> 142550746
      [] k = "posts" -> 139356268
      [] k = "prevlink" -> 222797955
      [] k = "nextlink" -> 80007119
      [] k = "items" -> 129179881
      [] k = "commands" -> 229440738
      [] k = "lang" -> 206182368
      [] k = "title" -> 245607463
      [] k = "permalink" -> 75442658
      [] k = "OUTPUT_FOLDER" -> 256978095
      [] k = "TRANSLATIONS" -> 153210508
      [] k = "Archive" -> 176834941
      [] k = "Tags" -> 221320487
      [] k = "Posts about %s:" -> 188439731
      [] k = "Posts for year %s" -> 187408468
      [] k = "posts/p1" -> 8175773
      [] k = "posts/p2" -> 8175774
      [] k = "posts/p3" -> 8175775
      [] k = "posts/p4" -> 8175768
      [] k = "posts/p5" -> 8175769
      [] k = "posts/p6" -> 8175770
      [] k = "posts/p7" -> 8175771
      [] k = "posts/p8" -> 8175764
      [] k = "posts/p9" -> 8175765
      [] k = "posts/p10" -> 50843846
      [] k = "posts/p11" -> 50843847
      [] k = "posts/p12" -> 50843844
      [] k = "posts/p13" -> 50843845
      [] k = "posts/p14" -> 50843842
      [] k = "posts/p15" -> 50843843
      [] k = "posts/p16" -> 50843840
      [] k = "posts/p17" -> 50843841
      [] k = "posts/p18" -> 50843854
      [] k = "posts/p19" -> 50843855
      [] k = "posts/p20" -> 51843963
      [] k = "posts/p21" -> 51843962
      [] k = "posts/p22" -> 51843961
      [] k = "posts/p23" -> 51843960
      [] k = "posts/p24" -> 51843967
      [] k = "posts/p25" -> 51843966
      [] k = "posts/p26" -> 51843965
      [] k = "posts/p27" -> 51843964
      [] k = "posts/p28" -> 51843955
      [] k = "posts/p29" -> 51843954
      [] k = "posts/p30" -> 52843964
      [] k = "stories/s1" -> 13512200
      [] k = "stories/s21" -> 266423417
      [] k = "stories/s41" -> 3987951
      [] k = "999" -> 231996492
      [] k = "2020" -> 173495156
      [] k = "2021" -> 173495157
      [] k = "a" -> 68006368
      [] k = "b" -> 196006755
      [] k = "rest" -> 154340878
      [] k = "markdown" -> 241669379

\* lookdict: the slot of key, or the slot an insertion of key would take.
RECURSIVE lookdict(_, _, _, _, _)
lookdict(tab, key, i, perturb, freeslot) ==
    LET slot == i % Size(tab)
        ep   == tab[slot]
    IN  CASE freeslot # -1 /\ ep.st = "empty" -> freeslot
          [] ep.st = "empty" -> slot
          [] ep.st = "active" /\ ep.k = key -> slot
          [] ep.st = "dummy" /\ freeslot = -1 ->
                 lookdict(tab, key, 5 * slot + perturb + 1, perturb \div 32, slot)
          [] OTHER ->
                 lookdict(tab, key, 5 * slot + perturb + 1, perturb \div 32, freeslot)

Lookup(tab, key) == lookdict(tab, key, KeyHash(key) % Size(tab), KeyHash(key), -1)

HasKey(tab, key) == tab[Lookup(tab, key)].st = "active"

Fill(tab) == Cardinality({i \in DOMAIN tab : tab[i].st # "empty"})

Used(tab) == Cardinality({i \in DOMAIN tab : tab[i].st = "active"})

\* The list with the items of seq, each computed once.
List(seq) == seq \o <<>>

\* The active entries in slot order: what d.items(), iteration and
\* pickling see.
PyDict_Items(tab) ==
    LET slots == SelectSeq([i \in 1 .. Size(tab) |-> i - 1],
                           LAMBDA i : tab[i].st = "active")
    IN  List([n \in 1 .. Len(slots) |-> [k |-> tab[slots[n]].k, v |-> tab[slots[n]].v]])

\* insertdict_clean: an entry goes into a table that has no dummy slots.
insertdict_clean(new, item) ==
    [new EXCEPT ![Lookup(new, item.k)] = [st |-> "active", k |-> item.k, v |-> item.v]]

\* for (newsize = PyDict_MINSIZE; newsize <= minused; newsize <<= 1)
RECURSIVE NewSize(_, _)
NewSize(newsize, minused) ==
    IF newsize > minused THEN newsize ELSE NewSize(2 * newsize, minused)

\* for ep in the old table: insertdict_clean(mp, ep), for the entries
\* lo .. hi of seq: those of the first half, then those of the second
\* (the tuple holds the table after each half, computed in turn).
RECURSIVE dictresize_loop(_, _, _, _)
dictresize_loop(acc, seq, lo, hi) ==
    IF lo > hi THEN acc
    ELSE IF lo = hi THEN insertdict_clean(acc, seq[lo])
    ELSE LET half == dictresize_loop(acc, seq, lo, (lo + hi) \div 2)
         IN  <<half, dictresize_loop(half, seq, ((lo + hi) \div 2) + 1, hi)>>[2]

\* The active entries go into a new table, in slot order.
dictresize(tab, minused) ==
    LET items == PyDict_Items(tab)
    IN  dictresize_loop(NewTable(NewSize(8, minused)), items, 1, Len(items))

\* d[key] = val; the table grows when a new key fills it to 2/3.
PyDict_SetItem(tab, key, val) ==
    LET t == [tab EXCEPT ![Lookup(tab, key)] = [st |-> "active", k |-> key, v |-> val]]
    IN  IF Used(t) > Used(tab) /\ Fill(t) * 3 >= Size(t) * 2
        THEN dictresize(t, 4 * Used(t))
        ELSE t

\* d[k] = v for the items lo .. hi of seq, in turn.
RECURSIVE PyDict_SetItems_loop(_, _, _, _)
PyDict_SetItems_loop(acc, seq, lo, hi) ==
    IF lo > hi THEN acc
    ELSE IF lo = hi THEN PyDict_SetItem(acc, seq[lo][1], seq[lo][2])
    ELSE LET half == PyDict_SetItems_loop(acc, seq, lo, (lo + hi) \div 2)
         IN  <<half, PyDict_SetItems_loop(half, seq, ((lo + hi) \div 2) + 1, hi)>>[2]

\* d[k] = v for each <<k, v>> of items in turn.
PyDict_SetItems(tab, items) == PyDict_SetItems_loop(tab, items, 1, Len(items))

\* del d[key]
PyDict_DelItem(tab, key) ==
    [tab EXCEPT ![Lookup(tab, key)] = DummySlot]

\* The mapping a dict denotes: its set of key/value pairs.
Mapping(tab) ==
    {[k |-> tab[i].k, v |-> tab[i].v] : i \in {j \in DOMAIN tab : tab[j].st = "active"}}

\* The keys and values of the mappings that SpecFP fingerprints.
Keys == {"en", "es", "pt"}

Vals == {<<"a">>, <<"b">>}

(***************************************************************************)
(* config_changed (nikola.py 28-51).                                       *)
(***************************************************************************)
None == [t |-> "None"]

PyStr(s) == [t |-> "str", s |-> s]

PyDict(tab) == [t |-> "dict", tab |-> tab]

PyOther == [t |-> "other"]

\* The pickles of a str, an int, None and a tuple or list of pickled items.
PickleStr(s) == <<"S'">> \o s \o <<"'">>

PickleNone == <<"N">>

\* seqs[lo] \o ... \o seqs[hi]
RECURSIVE ConcatRange(_, _, _)
ConcatRange(seqs, lo, hi) ==
    IF lo > hi THEN <<>>
    ELSE IF lo = hi THEN seqs[lo]
    ELSE ConcatRange(seqs, lo, (lo + hi) \div 2)
         \o ConcatRange(seqs, ((lo + hi) \div 2) + 1, hi)

Concat(seqs) == ConcatRange(seqs, 1, Len(seqs))

PickleSeq(pickles) == <<"(">> \o Concat(pickles) \o <<")">>

\* cPickle.dumps(dict): the items in iteration order, each key with the
\* pickle of its value. hashlib.md5 is taken to be injective on the pickles
\* that occur.
cPickle_dumps(tab) ==
    LET items == PyDict_Items(tab)
    IN  <<"{">> \o Concat([i \in 1 .. Len(items) |->
                              PickleStr(<<items[i].k>>) \o items[i].v])
        \o <<"}">>

\* Lines 34-42: the digest of a str is the str, of a dict the md5 of its pickle.
\* A digest that hashes a string context as well.
config_digest_hashes_str(config) ==
    [t |-> "md5", data |-> IF config.t = "str" THEN config.s ELSE cPickle_dumps(config.tab)]

config_digest(config) ==
    IF config.t = "str" THEN config
    ELSE [t |-> "md5", data |-> cPickle_dumps(config.tab)]

\* Lines 48-51: no recorded digest is stale, otherwise compare.
uptodate_value_NoneIsFresh(last_success, digest) ==
    IF last_success = None THEN "True"
    ELSE IF last_success = digest THEN "True" ELSE "False"

uptodate_value(last_success, digest) ==
    IF last_success = None THEN "False"
    ELSE IF last_success = digest THEN "True" ELSE "False"

\* config_changed.__call__(task, values)
config_changed_call ==
    /\ cc_pc = "idle"
    /\ cc_pc' = "checked"
    /\ IF cc_config.t \notin {"str", "dict"}
       THEN /\ cc_result' = "raised"
            /\ UNCHANGED task_actions
       ELSE /\ task_actions' = <<[save |-> config_digest(cc_config)]>> \o task_actions
            /\ cc_result' = uptodate_value(values, config_digest(cc_config))
    /\ UNCHANGED <<cc_config, values, cc_built, cc_twin, cc_digests>>
    /\ UNCHANGED notFP

(***************************************************************************)
(* The executor, around one check: a stale task runs and, when it          *)
(* succeeds, its save action's digest is stored; an up-to-date task is     *)
(* skipped. The next build starts with a fresh task description.           *)
(***************************************************************************)
ExecutorRunOk ==
    /\ cc_pc = "checked" /\ cc_result = "False"
    /\ values' = task_actions[1].save
    /\ cc_built' = cc_config
    /\ task_actions' = <<>>
    /\ cc_pc' = "idle"
    /\ UNCHANGED <<cc_config, cc_result, cc_twin, cc_digests>>
    /\ UNCHANGED notFP

ExecutorRunFails ==
    /\ cc_pc = "checked" /\ cc_result = "False"
    /\ task_actions' = <<>>
    /\ cc_pc' = "idle"
    /\ UNCHANGED <<cc_config, values, cc_result, cc_built, cc_twin, cc_digests>>
    /\ UNCHANGED notFP

ExecutorSkip ==
    /\ cc_pc = "checked" /\ cc_result = "True"
    /\ task_actions' = <<>>
    /\ cc_pc' = "idle"
    /\ UNCHANGED <<cc_config, values, cc_result, cc_built, cc_twin, cc_digests>>
    /\ UNCHANGED notFP

ExecutorCheckRaised ==
    /\ cc_pc = "checked" /\ cc_result = "raised"
    /\ cc_pc' = "idle"
    /\ UNCHANGED <<cc_config, values, task_actions, cc_result, cc_built, cc_twin,
                   cc_digests>>
    /\ UNCHANGED notFP

\* Between builds the caller's context changes: another string, another
\* object, an item set or deleted.
SetConfigStr ==
    /\ cc_pc = "idle"
    /\ \E s \in Vals : cc_config' = PyStr(s)
    /\ UNCHANGED <<values, task_actions, cc_result, cc_pc, cc_built, cc_twin, cc_digests>>
    /\ UNCHANGED notFP

SetConfigOther ==
    /\ cc_pc = "idle"
    /\ cc_config' = PyOther
    /\ UNCHANGED <<values, task_actions, cc_result, cc_pc, cc_built, cc_twin, cc_digests>>
    /\ UNCHANGED notFP

TabOf(config) == IF config.t = "dict" THEN config.tab ELSE EmptyDict

ConfigSetItem ==
    /\ cc_pc = "idle"
    /\ \E k \in Keys, v \in Vals :
          cc_config' = PyDict(PyDict_SetItem(TabOf(cc_config), k, PickleStr(v)))
    /\ UNCHANGED <<values, task_actions, cc_result, cc_pc, cc_built, cc_twin, cc_digests>>
    /\ UNCHANGED notFP

ConfigDelItem ==
    /\ cc_pc = "idle"
    /\ cc_config.t = "dict"
    /\ \E k \in Keys :
          /\ HasKey(cc_config.tab, k)
          /\ cc_config' = PyDict(PyDict_DelItem(cc_config.tab, k))
    /\ UNCHANGED <<values, task_actions, cc_result, cc_pc, cc_built, cc_twin, cc_digests>>
    /\ UNCHANGED notFP

InitFPVars ==
    /\ cc_config = PyDict(EmptyDict)
    /\ values = None
    /\ task_actions = <<>>
    /\ cc_result = "none"
    /\ cc_pc = "idle"
    /\ cc_built = [t |-> "none"]
    /\ cc_twin = EmptyDict
    /\ cc_digests = <<>>

StepFP ==
    \/ config_changed_call
    \/ ExecutorRunOk
    \/ ExecutorRunFails
    \/ ExecutorSkip
    \/ ExecutorCheckRaised
    \/ SetConfigStr
    \/ SetConfigOther
    \/ ConfigSetItem
    \/ ConfigDelItem

\* What a config says, whatever the order its items were inserted in.
Content(config) ==
    IF config.t = "dict" THEN [t |-> "dict", m |-> Mapping(config.tab)] ELSE config

\* C1: the staleness protocol of config_changed over successive builds. After
\* a check of a str or dict config: with no recorded digest the task is stale;
\* a save action recording the digest of the current config is registered;
\* with a digest recorded by a successful run, the check says up to date
\* exactly when the current digest equals it, so that the config of that run,
\* unchanged, is skipped and a config saying something else is rebuilt.
C1_StalenessProtocol ==
    /\ (values # None => cc_built.t # "none" /\ values = config_digest(cc_built))
    /\ (cc_pc = "checked" /\ cc_config.t \in {"str", "dict"}) =>
          /\ (values = None => cc_result = "False")
          /\ Len(task_actions) >= 1
          /\ task_actions[1].save = config_digest(cc_config)
          /\ (values # None =>
                (cc_result = "True" <=> config_digest(cc_config) = values))
          /\ (values # None /\ cc_config = cc_built => cc_result = "True")
          /\ (values # None /\ Content(cc_config) # Content(cc_built)
                => cc_result = "False")

\* A check, after a successful run, that finds a non-empty dict up to date.
C1_Witness ==
    /\ cc_pc = "checked" /\ values # None /\ cc_result = "True"
    /\ cc_config.t = "dict" /\ Mapping(cc_config.tab) # {}

(***************************************************************************)
(* The fingerprint of two dicts that hold the same items (SpecFPOrder).    *)
(***************************************************************************)
TwinSetItem ==
    /\ cc_pc = "idle"
    /\ \E k \in Keys, v \in Vals :
          cc_twin' = PyDict_SetItem(cc_twin, k, PickleStr(v))
    /\ UNCHANGED <<cc_config, values, task_actions, cc_result, cc_pc, cc_built,
                   cc_digests>>
    /\ UNCHANGED notFP

TwinDelItem ==
    /\ cc_pc = "idle"
    /\ \E k \in Keys :
          /\ HasKey(cc_twin, k)
          /\ cc_twin' = PyDict_DelItem(cc_twin, k)
    /\ UNCHANGED <<cc_config, values, task_actions, cc_result, cc_pc, cc_built,
                   cc_digests>>
    /\ UNCHANGED notFP

\* Lines 37-39 on each of the two dicts.
FingerprintBoth ==
    /\ cc_pc = "idle"
    /\ cc_config.t = "dict"
    /\ cc_digests' = <<config_digest(cc_config), config_digest(PyDict(cc_twin))>>
    /\ cc_pc' = "digested"
    /\ UNCHANGED <<cc_config, values, task_actions, cc_result, cc_built, cc_twin>>
    /\ UNCHANGED notFP

FingerprintDone ==
    /\ cc_pc = "digested"
    /\ cc_digests' = <<>>
    /\ cc_pc' = "idle"
    /\ UNCHANGED <<cc_config, values, task_actions, cc_result, cc_built, cc_twin>>
    /\ UNCHANGED notFP

StepFPOrder ==
    \/ ConfigSetItem
    \/ ConfigDelItem
    \/ TwinSetItem
    \/ TwinDelItem
    \/ FingerprintBoth
    \/ FingerprintDone

\* C9: the fingerprint of a mapping does not depend on the order in which its
\* keys were inserted (or deleted and re-inserted): two dicts holding the same
\* key/value pairs have the same digest.
C9_OrderIndependent ==
    (cc_pc = "digested" /\ Mapping(cc_config.tab) = Mapping(cc_twin))
        => cc_digests[1] = cc_digests[2]

(***************************************************************************)
(* Nikola.rel_link (nikola.py 280-299). A URL is its scheme and host and   *)
(* the list path.split('/')[1:] of its path: <<>> for the empty path,      *)
(* <<"">> for "/", <<"a", "b">> for "/a/b", <<"a", "">> for "/a/".         *)
(***************************************************************************)
MaxSegs == 3

SegNames == {"a", "b"}

Hosts == {"x", "y"}

BLOG_URL == [abs |-> TRUE, host |-> "x", segs |-> <<>>]

SeqsUpTo(S, n) == UNION {[1 .. m -> S] : m \in 0 .. n}

\* Paths of up to MaxSegs segments, with or without a trailing slash.
PathSegs == SeqsUpTo(SegNames, MaxSegs)
            \cup {p \o <<"">> : p \in SeqsUpTo(SegNames, MaxSegs - 1)}

\* What src and dst may be: an absolute URL, or a path from the site's root.
UrlArgs == [abs : {TRUE}, host : Hosts, segs : PathSegs]
           \cup [abs : {FALSE}, host : {""}, segs : PathSegs \ {<<>>}]

\* urlparse.urljoin(base, url) for these: an absolute URL is kept, a rooted
\* path takes the scheme and host of the base.
urljoin(base, url) ==
    IF url.abs THEN url ELSE [abs |-> TRUE, host |-> base.host, segs |-> url.segs]

Min(a, b) == IF a < b THEN a ELSE b

\* Lines 292-297: the Python index i after the for/else over
\* zip(enumerate(src_elems), dst_elems) (0-based).
RECURSIVE common_prefix_loop(_, _, _, _)
common_prefix_loop(src_elems, dst_elems, i, j) ==
    \* j: the 0-based index of the next pair, i: the value i holds
    IF j >= Min(Len(src_elems), Len(dst_elems))
    THEN i + 1                                   \* for ... else: i += 1
    ELSE IF src_elems[j + 1] # dst_elems[j + 1]
    THEN j                                       \* i = j; break
    ELSE common_prefix_loop(src_elems, dst_elems, j, j + 1)

Repeat(x, n) == [k \in 1 .. (IF n > 0 THEN n ELSE 0) |-> x]

Drop(seq, n) == IF n >= Len(seq) THEN <<>> ELSE SubSeq(seq, n + 1, Len(seq))

\* '/'.join(elems), as the list its split('/') gives back.
SlashJoin(elems) == IF elems = <<>> THEN <<"">> ELSE elems

rel_link(src, dst) ==
    LET nsrc == urljoin(BLOG_URL, src)
        ndst == urljoin(nsrc, dst)
        i    == common_prefix_loop(nsrc.segs, ndst.segs, 0, 0)
    IN  IF nsrc.host # ndst.host
        THEN [t |-> "url", url |-> ndst]
        ELSE [t |-> "rel",
              path |-> SlashJoin(Repeat("..", Len(nsrc.segs) - i - 1)
                                 \o Drop(ndst.segs, i))]

RelLinkCall ==
    /\ rl_result.t = "none"
    /\ rl_result' = rel_link(rl_src, rl_dst)
    /\ UNCHANGED <<rl_src, rl_dst>>
    /\ UNCHANGED notRL

\* No call of rel_link pending.
IdleRLVars ==
    /\ rl_src = BLOG_URL
    /\ rl_dst = BLOG_URL
    /\ rl_result = [t |-> "done"]

\* A call of rel_link with any two arguments.
InitRLVars ==
    /\ rl_src \in UrlArgs
    /\ rl_dst \in UrlArgs
    /\ rl_result = [t |-> "none"]

\* Standard resolution of a relative reference against the path of a base
\* (RFC 3986 5.2): the empty reference is the base itself; otherwise the
\* base's last segment is dropped, the reference appended, and each ".."
\* removes the segment before it.
RECURSIVE RemoveDots(_, _)
RemoveDots(done, rest) ==
    IF rest = <<>> THEN done
    ELSE IF Head(rest) = ".."
    THEN RemoveDots(IF done = <<>> THEN <<>> ELSE SubSeq(done, 1, Len(done) - 1),
                    Tail(rest))
    ELSE RemoveDots(Append(done, Head(rest)), Tail(rest))

Resolve(base_segs, ref) ==
    IF ref = <<"">> THEN base_segs
    ELSE RemoveDots(<<>>,
                    (IF base_segs = <<>> THEN <<>>
                     ELSE SubSeq(base_segs, 1, Len(base_segs) - 1)) \o ref)

\* An http URL with no path names the same resource as the one with path "/".
NormPath(segs) == IF segs = <<>> THEN <<"">> ELSE segs

\* C8: when src and dst share scheme and host, resolving rel_link(src, dst)
\* against src gives the path of dst; when they do not, the result is dst.
C8_RelLinkLeadsToDst ==
    rl_result.t \in {"rel", "url"} =>
        LET nsrc == urljoin(BLOG_URL, rl_src)
            ndst == urljoin(nsrc, rl_dst)
        IN  IF nsrc.host = ndst.host
            THEN /\ rl_result.t = "rel"
                 /\ NormPath(Resolve(nsrc.segs, rl_result.path)) = NormPath(ndst.segs)
            ELSE rl_result = [t |-> "url", url |-> ndst]

(***************************************************************************)
(* Strings. "%s" % n and str(n) write n in decimal; os.path.join and       *)
(* '/'.join put a "/" between the parts.                                   *)
(***************************************************************************)
Digits == <<"0", "1", "2", "3", "4", "5", "6", "7", "8", "9">>

RECURSIVE IntStr(_)
IntStr(n) ==
    IF n < 10 THEN <<Digits[n + 1]>>
    ELSE IntStr(n \div 10) \o <<Digits[(n % 10) + 1]>>

\* filter(None, parts): the parts that are not empty.
RECURSIVE FilterNone(_)
FilterNone(parts) ==
    IF parts = <<>> THEN <<>>
    ELSE (IF Head(parts) = <<>> THEN <<>> ELSE <<Head(parts)>>)
         \o FilterNone(Tail(parts))

RECURSIVE JoinSlash(_)
JoinSlash(parts) ==
    IF parts = <<>> THEN <<>>
    ELSE IF Len(parts) = 1 THEN Head(parts)
    ELSE Head(parts) \o <<"/">> \o JoinSlash(Tail(parts))

(***************************************************************************)
(* The site configuration (conf.py) that path and the generators read.     *)
(***************************************************************************)
Languages == {"en", "es"}

\* self.config['TRANSLATIONS'][lang]: the output folder of a language.
TRANSLATIONS(lang) == IF lang = "en" THEN <<>> ELSE <<lang>>

TAG_PATH == <<"categories">>

INDEX_PATH == <<>>

ARCHIVE_PATH == <<>>

RSS_PATH == <<>>

GALLERY_PATH == <<"galleries">>

(***************************************************************************)
(* Nikola.path (nikola.py 218-275) and Nikola.link (277-278).              *)
(***************************************************************************)
\* Lines 241-271: the list of path components of a kind of page.
path_parts(kind, name, lang) ==
    CASE kind = "tag_index" ->
            FilterNone(<<TRANSLATIONS(lang), TAG_PATH, <<"index", ".html">>>>)
      [] kind = "tag" ->
            FilterNone(<<TRANSLATIONS(lang), TAG_PATH, name \o <<".html">>>>)
      [] kind = "tag_rss" ->
            FilterNone(<<TRANSLATIONS(lang), TAG_PATH, name \o <<".xml">>>>)
      [] kind = "index" ->
            IF name > 0
            THEN FilterNone(<<TRANSLATIONS(lang), INDEX_PATH,
                              <<"index", "-">> \o IntStr(name) \o <<".html">>>>)
            ELSE FilterNone(<<TRANSLATIONS(lang), INDEX_PATH, <<"index", ".html">>>>)
      [] kind = "rss" ->
            FilterNone(<<TRANSLATIONS(lang), RSS_PATH, <<"rss", ".xml">>>>)
      [] kind = "archive" ->
            IF name # <<>>
            THEN FilterNone(<<TRANSLATIONS(lang), ARCHIVE_PATH, name,
                              <<"index", ".html">>>>)
            ELSE FilterNone(<<TRANSLATIONS(lang), ARCHIVE_PATH, <<"archive", ".html">>>>)
      [] kind = "gallery" ->
            FilterNone(<<GALLERY_PATH, name, <<"index", ".html">>>>)
      [] OTHER -> <<>>

\* path(kind, name, lang, is_link)
path(kind, name, lang, is_link) ==
    IF is_link
    THEN <<"/">> \o JoinSlash(path_parts(kind, name, lang))
    ELSE JoinSlash(path_parts(kind, name, lang))

link(kind, name, lang) == path(kind, name, lang, TRUE)

\* The calls with a name meaningful for the kind. None, as a name, is <<>>;
\* as a language, "None".
MaxPage == 11

TagNames == {<<"a">>, <<"b">>, <<"index">>}

Years == {IntStr(2020), IntStr(2021)}

GalleryNames == {<<"a">>, <<"b">>}

PathCalls ==
    [kind : {"tag_index", "rss"}, name : {<<>>}, lang : Languages]
    \cup [kind : {"tag", "tag_rss"}, name : TagNames, lang : Languages]
    \cup [kind : {"index"}, name : 0 .. MaxPage, lang : Languages]
    \cup [kind : {"archive"}, name : Years \cup {<<>>}, lang : Languages]
    \cup [kind : {"gallery"}, name : GalleryNames, lang : {"None"}]

PathCall ==
    /\ path_out = <<>>
    /\ path_out' = <<path(path_args[1].kind, path_args[1].name, path_args[1].lang, FALSE),
                     path(path_args[2].kind, path_args[2].name, path_args[2].lang, FALSE)>>
    /\ UNCHANGED path_args
    /\ UNCHANGED notPath

IdlePathVars ==
    /\ path_args = <<>>
    /\ path_out = <<"idle">>

InitPathVars ==
    /\ path_args \in PathCalls \X PathCalls
    /\ path_out = <<>>

SameCall(c, d) ==
    /\ c.kind = d.kind
    /\ c.name = d.name
    /\ c.lang = d.lang

\* C7: path is injective: two distinct triples (kind, name, lang), each with a
\* name meaningful for its kind, map to different output paths.
C7_PathInjective ==
    (Len(path_out) = 2 /\ ~SameCall(path_args[1], path_args[2]))
        => path_out[1] # path_out[2]

(***************************************************************************)
(* Task descriptions are records holding the keys the code gives them;     *)
(* a key the code leaves out is no field.                                  *)
(***************************************************************************)
Targets(task) == IF "targets" \in DOMAIN task THEN task.targets ELSE <<>>

FileDep(task) == IF "file_dep" \in DOMAIN task THEN task.file_dep ELSE <<>>

Range(seq) == {seq[i] : i \in 1 .. Len(seq)}

\* config_changed(kw) for a call f(k1=v1, k2=v2, ...): the keyword dict is
\* filled in the order of the call; the digest is the one __call__ computes.
kwargs(items) == PyDict_SetItems(EmptyDict, items)

OUTPUT_FOLDER == <<"output">>

(***************************************************************************)
(* utils.copy_tree (utils.py 75-104) and Nikola.gen_task_copy_files        *)
(* (nikola.py 943-967). A file of a tree is [folder, dir, name]: dir is    *)
(* the list of directories between the tree's root and the file.           *)
(***************************************************************************)
FolderNames == {"files", "extra"}

\* The files a tree may hold, in the order os.walk lists them (top down).
TreeListing ==
    << [dir |-> <<>>, name |-> "favicon.ico"],
       [dir |-> <<>>, name |-> "robots.txt"],
       [dir |-> <<".svn">>, name |-> "entries"],
       [dir |-> <<"img">>, name |-> "favicon.ico"] >>

AllTreeFiles ==
    {[folder |-> f, dir |-> TreeListing[i].dir, name |-> TreeListing[i].name] :
        f \in FolderNames, i \in 1 .. Len(TreeListing)}

\* The configurations of FILES_FOLDERS: up to MaxFolders trees, none twice.
MaxFolders == 2

FolderLists ==
    {fl \in SeqsUpTo(FolderNames, MaxFolders) :
        \A i, j \in 1 .. Len(fl) : i # j => fl[i] # fl[j]}

\* [x] for each part x: a list of names as a list of strings.
Strs(names) == [i \in 1 .. Len(names) |-> <<names[i]>>]

\* os.path.join of non-empty relative parts.
os_path_join(parts) == JoinSlash(parts)

\* The task copy_tree yields for one file of the tree src, copied under dst.
copy_tree_task(src, dst, file) ==
    LET dst_dir  == os_path_join(<<dst>> \o Strs(file.dir))
        dst_file == os_path_join(<<dst_dir, <<file.name>>>>)
        src_file == os_path_join(<<<<src>>>> \o Strs(file.dir) \o <<<<file.name>>>>)
    IN  [name |-> dst_file,
         file_dep |-> <<src_file>>,
         targets |-> <<dst_file>>,
         actions |-> <<[fn |-> "copy_file", src |-> src_file, dst |-> dst_file]>>,
         clean |-> TRUE]

\* Lines 88-104: the walk of src, skipping what lies under a .svn directory.
RECURSIVE copy_tree_from(_, _, _, _)
copy_tree_from(src, dst, files, i) ==
    IF i > Len(TreeListing) THEN <<>>
    ELSE LET file == [folder |-> src, dir |-> TreeListing[i].dir,
                      name |-> TreeListing[i].name]
         IN  (IF file \in files /\ ".svn" \notin Range(file.dir)
              THEN <<copy_tree_task(src, dst, file)>>
              ELSE <<>>)
             \o copy_tree_from(src, dst, files, i + 1)

copy_tree(src, dst, files) == copy_tree_from(src, dst, files, 1)

\* Lines 92-94: the directories of dst that the walk of src makes sure exist.
copy_tree_makedirs(src, dst, files) ==
    {os_path_join(<<dst>> \o Strs(f.dir)) :
        f \in {g \in files : g.folder = src /\ ".svn" \notin Range(g.dir)}}

copy_files_kw(output_folder, folders) ==
    kwargs(<< <<"output_folder", PickleStr(output_folder)>>,
              <<"files_folders", PickleSeq([i \in 1 .. Len(folders) |->
                                             PickleStr(<<folders[i]>>)])>> >>)

\* Lines 953-962: the tasks of every tree, each with its basename and fingerprint.
RECURSIVE copy_files_loop(_, _, _, _)
copy_files_loop(folders, i, files, kw) ==
    IF i > Len(folders) THEN <<>>
    ELSE LET tasks == copy_tree(folders[i], OUTPUT_FOLDER, files)
         IN  [j \in 1 .. Len(tasks) |->
                 tasks[j] @@ [basename |-> "copy_files",
                              uptodate |-> <<config_digest(PyDict(kw))>>]]
             \o copy_files_loop(folders, i + 1, files, kw)

\* gen_task_copy_files(output_folder=..., files_folders=...)
gen_task_copy_files(folders, files) ==
    LET tasks == copy_files_loop(folders, 1, files,
                                 copy_files_kw(OUTPUT_FOLDER, folders))
    IN  IF tasks = <<>>                                   \* if not flag
        THEN <<[basename |-> "copy_files", actions |-> <<>>]>>
        ELSE tasks

GenTaskCopyFiles ==
    /\ copy_pc = "start"
    /\ copy_tasks' = gen_task_copy_files(files_folders, fs_files)
    /\ out_dirs' = out_dirs \cup
            UNION {copy_tree_makedirs(files_folders[i], OUTPUT_FOLDER, fs_files) :
                      i \in 1 .. Len(files_folders)}
    /\ copy_pc' = "done"
    /\ UNCHANGED <<fs_files, files_folders>>
    /\ UNCHANGED notCopy

IdleCopyVars ==
    /\ fs_files = {}
    /\ files_folders = <<>>
    /\ out_dirs = {}
    /\ copy_tasks = <<>>
    /\ copy_pc = "idle"

InitCopyVars ==
    /\ fs_files \in SUBSET AllTreeFiles
    /\ files_folders \in FolderLists
    /\ out_dirs = {}
    /\ copy_tasks = <<>>
    /\ copy_pc = "start"

\* No output path is a target of two different task descriptions.
NoSharedTarget(tasks) ==
    \A i, j \in 1 .. Len(tasks) :
        i # j => Range(Targets(tasks[i])) \cap Range(Targets(tasks[j])) = {}

\* C3: in the task list that is derived, for any files and configuration, no
\* output path appears in the targets of two different task descriptions.
C3_NoSharedTarget == copy_pc = "done" => NoSharedTarget(copy_tasks)

(***************************************************************************)
(* The theme's templates and mako_templates.template_deps                  *)
(* (mako_templates.py 13-23, 44-54): a template and what it inherits.      *)
(***************************************************************************)
\* get_deps: the <%inherit file=.../> of a template of the theme.
get_deps(template_name) ==
    IF template_name = "base.tmpl" THEN <<>> ELSE <<"base.tmpl">>

template_filename(template_name) == <<"themes/default/templates/", template_name>>

RECURSIVE template_deps(_)
template_deps(template_name) ==
    LET dep_filenames == get_deps(template_name)
    IN  <<template_filename(template_name)>>
        \o Concat([i \in 1 .. Len(dep_filenames) |-> template_deps(dep_filenames[i])])

(***************************************************************************)
(* Nikola.gen_task_render_galleries (nikola.py 774-904).                   *)
(***************************************************************************)
\* os.path.dirname: what comes before the last slash.
RECURSIVE os_path_dirname(_)
os_path_dirname(p) ==
    IF p = <<>> THEN <<>>
    ELSE IF p[Len(p)] = "/" THEN SubSeq(p, 1, Len(p) - 1)
    ELSE os_path_dirname(SubSeq(p, 1, Len(p) - 1))

\* The images a gallery may hold, in the order the directory lists them.
\* An image is its name split as os.path.splitext splits it.
ImageListing ==
    << [fname |-> <<"p2">>, ext |-> ".png"],
       [fname |-> <<"p1">>, ext |-> ".jpg"],
       [fname |-> <<"p1", ".thumbnail">>, ext |-> ".jpg"] >>

ImageNames == Range(ImageListing)

\* The galleries in the order glob.glob("galleries/*") lists them.
GalleryListing == <<<<"a">>, <<"b">>>>

\* At most MaxGalleries galleries exist.
MaxGalleries == 1

GalleryTrees ==
    UNION {[G -> [images : SUBSET ImageNames, index_txt : BOOLEAN,
                  index_html : BOOLEAN, out_isdir : BOOLEAN]] :
              G \in {H \in SUBSET Range(GalleryListing) :
                          Cardinality(H) <= MaxGalleries}}

img_basename(image) == image.fname \o <<image.ext>>

\* glob.glob(gallery_path + "/*" + ext)
RECURSIVE glob_from(_, _, _, _)
glob_from(gallery_path, images, ext, i) ==
    IF i > Len(ImageListing) THEN <<>>
    ELSE (IF ImageListing[i] \in images /\ ImageListing[i].ext = ext
          THEN <<[path |-> os_path_join(<<gallery_path, img_basename(ImageListing[i])>>),
                  image |-> ImageListing[i]]>>
          ELSE <<>>)
         \o glob_from(gallery_path, images, ext, i + 1)

glob(gallery_path, images, ext) == glob_from(gallery_path, images, ext, 1)

\* "thumbnail" in x
has_thumbnail(x) == \E i \in 1 .. Len(x) : x[i] \in {"thumbnail", ".thumbnail"}

RECURSIVE not_thumbnails(_)
not_thumbnails(image_list) ==
    IF image_list = <<>> THEN <<>>
    ELSE (IF has_thumbnail(Head(image_list).path) THEN <<>> ELSE <<Head(image_list)>>)
         \o not_thumbnails(Tail(image_list))

PickleInt(n) == <<"I">> \o IntStr(n)

THUMBNAIL_SIZE == 180

DEFAULT_LANG == "en"

render_galleries_kw ==
    kwargs(<< <<"thumbnail_size", PickleInt(THUMBNAIL_SIZE)>>,
              <<"default_lang", PickleStr(<<DEFAULT_LANG>>)>>,
              <<"output_folder", PickleStr(OUTPUT_FOLDER)>> >>)

\* Lines 814-904: the tasks of one gallery.
gallery_tasks(gallery_name, tree, image_lib) ==
    LET gallery_path   == os_path_join(<<<<"galleries">>, gallery_name>>)
        output_gallery == os_path_dirname(
                              os_path_join(<<OUTPUT_FOLDER,
                                             path("gallery", gallery_name, "None", FALSE)>>))
        uptodate       == <<config_digest(PyDict(render_galleries_kw))>>
        image_list     == not_thumbnails(glob(gallery_path, tree.images, ".jpg")
                                         \o glob(gallery_path, tree.images, ".JPG")
                                         \o glob(gallery_path, tree.images, ".PNG")
                                         \o glob(gallery_path, tree.images, ".png"))
        thumb_task(img) ==
            LET img_name       == img_basename(img.image)
                thumb_path     == os_path_join(<<output_gallery,
                                      img.image.fname \o <<".thumbnail", img.image.ext>>>>)
                orig_dest_path == os_path_join(<<output_gallery, img_name>>)
            IN  [basename |-> "render_galleries",
                 name |-> thumb_path,
                 file_dep |-> <<img.path>>,
                 targets |-> <<thumb_path, orig_dest_path>>,
                 actions |-> <<[fn |-> IF image_lib THEN "create_thumb" ELSE "copy_file",
                                src |-> img.path, dst |-> thumb_path],
                               [fn |-> "copy_file", src |-> img.path,
                                dst |-> orig_dest_path]>>,
                 clean |-> TRUE,
                 uptodate |-> uptodate]
        output_name    == os_path_join(<<output_gallery, <<"index", ".html">>>>)
        index_path     == os_path_join(<<gallery_path, <<"index", ".txt">>>>)
        index_dst_path == os_path_join(<<gallery_path, <<"index", ".html">>>>)
    IN  (IF ~tree.out_isdir
         THEN <<[basename |-> "render_galleries",
                 name |-> output_gallery,
                 actions |-> <<[fn |-> "makedirs", dst |-> output_gallery]>>,
                 targets |-> <<output_gallery>>,
                 clean |-> TRUE,
                 uptodate |-> uptodate]>>
         ELSE <<>>)
        \o [i \in 1 .. Len(image_list) |-> thumb_task(image_list[i])]
        \o (IF tree.index_txt
            THEN <<[basename |-> "render_galleries",
                    name |-> index_dst_path,
                    file_dep |-> <<index_path>>,
                    targets |-> <<index_dst_path>>,
                    actions |-> <<[fn |-> "compile_html", src |-> index_path,
                                   dst |-> index_dst_path]>>,
                    clean |-> TRUE,
                    uptodate |-> uptodate]>>
            ELSE <<>>)
        \o <<[basename |-> "render_galleries",
              name |-> gallery_path,
              file_dep |-> template_deps("gallery.tmpl")
                           \o [i \in 1 .. Len(image_list) |-> image_list[i].path],
              targets |-> <<output_name>>,
              actions |-> <<[fn |-> "render_gallery", dst |-> output_name,
                             index_dst_path |-> index_dst_path]>>,
              clean |-> TRUE,
              uptodate |-> uptodate]>>

RECURSIVE render_galleries_loop(_, _, _)
render_galleries_loop(trees, image_lib, i) ==
    IF i > Len(GalleryListing) THEN <<>>
    ELSE (IF GalleryListing[i] \in DOMAIN trees
          THEN gallery_tasks(GalleryListing[i], trees[GalleryListing[i]], image_lib)
          ELSE <<>>)
         \o render_galleries_loop(trees, image_lib, i + 1)

gen_task_render_galleries(trees, image_lib) ==
    IF DOMAIN trees = {}                                  \* if not gallery_list
    THEN <<[basename |-> "render_galleries", actions |-> <<>>]>>
    ELSE render_galleries_loop(trees, image_lib, 1)

GenTaskRenderGalleries ==
    /\ gal_pc = "start"
    /\ gal_tasks' = gen_task_render_galleries(galleries, Image)
    /\ gal_pc' = "derived"
    /\ UNCHANGED <<galleries, Image, gal_done, gal_written, gal_text>>
    /\ UNCHANGED notGal
(***************************************************************************)
(* The execution of the gallery tasks by the task executor: a task may run *)
(* once every file_dep of it that another task targets has been produced;  *)
(* between tasks that declare no such link the executor is free.           *)
(***************************************************************************)
Producers(tasks, i) ==
    {j \in 1 .. Len(tasks) :
        j # i /\ Range(Targets(tasks[j])) \cap Range(FileDep(tasks[i])) # {}}

\* The galleries/<name>/index.html files that exist before the build.
ExistingIndexHtml ==
    {os_path_join(<<<<"galleries">>, g, <<"index", ".html">>>>) :
        g \in {h \in DOMAIN galleries : galleries[h].index_html}}

\* render_gallery (lines 887-893): the text it reads from index_dst_path.
render_gallery_text(index_dst_path) ==
    IF index_dst_path \in gal_written THEN "blurb"
    ELSE IF index_dst_path \in ExistingIndexHtml THEN "previous blurb"
    ELSE ""

ExecutorRunGalleryTask ==
    /\ gal_pc = "derived"
    /\ \E i \in (1 .. Len(gal_tasks)) \ gal_done :
          /\ Producers(gal_tasks, i) \subseteq gal_done
          /\ gal_done' = gal_done \cup {i}
          /\ gal_written' = gal_written \cup Range(Targets(gal_tasks[i]))
          /\ gal_text' =
                gal_text \cup
                {<<gal_tasks[i].actions[k].dst,
                   render_gallery_text(gal_tasks[i].actions[k].index_dst_path)>> :
                    k \in {n \in 1 .. Len(gal_tasks[i].actions) :
                              gal_tasks[i].actions[n].fn = "render_gallery"}}
    /\ UNCHANGED <<galleries, Image, gal_tasks, gal_pc>>
    /\ UNCHANGED notGal

StepGallery ==
    \/ GenTaskRenderGalleries
    \/ ExecutorRunGalleryTask

IdleGalVars ==
    /\ galleries = <<>>
    /\ Image = FALSE
    /\ gal_tasks = <<>>
    /\ gal_done = {}
    /\ gal_written = {}
    /\ gal_text = {}
    /\ gal_pc = "idle"

InitGalVars ==
    /\ galleries \in GalleryTrees
    /\ Image \in BOOLEAN
    /\ gal_tasks = <<>>
    /\ gal_done = {}
    /\ gal_written = {}
    /\ gal_text = {}
    /\ gal_pc = "start"

IsGalleryIndex(task) ==
    \E k \in 1 .. Len(task.actions) : task.actions[k].fn = "render_gallery"

\* The image tasks and the blurb task of the gallery whose index task is at i.
ImageTasksOf(tasks, i) ==
    {j \in 1 .. Len(tasks) :
        /\ \E k \in 1 .. Len(tasks[j].actions) : tasks[j].actions[k].fn = "create_thumb"
                                                \/ tasks[j].actions[k].fn = "copy_file"
        /\ Range(FileDep(tasks[j])) \subseteq Range(FileDep(tasks[i]))}

BlurbTasksOf(tasks, i) ==
    {j \in 1 .. Len(tasks) :
        /\ \E k \in 1 .. Len(tasks[j].actions) : tasks[j].actions[k].fn = "compile_html"
        /\ tasks[j].targets = <<tasks[i].actions[1].index_dst_path>>}

\* C4: in every order the executor may choose, the index task of a gallery
\* runs after every image task of the gallery and, when the gallery has an
\* index.txt, after the blurb task, whose output it splices into the page.
C4_GalleryIndexAfterImagesAndBlurb ==
    \A i \in gal_done :
        IsGalleryIndex(gal_tasks[i]) =>
            /\ ImageTasksOf(gal_tasks, i) \subseteq gal_done
            /\ BlurbTasksOf(gal_tasks, i) \subseteq gal_done
            /\ BlurbTasksOf(gal_tasks, i) # {} =>
                    <<gal_tasks[i].targets[1], "blurb">> \in gal_text

(***************************************************************************)
(* The source files of the posts and stories, Post.__init__ (nikola.py     *)
(* 57-106), Post.deps and Post.fragment_deps (112-126).                    *)
(***************************************************************************)
\* The post files without their extension, in the order glob lists them.
PostNames ==
    << "posts/p1", "posts/p2", "posts/p3", "posts/p4", "posts/p5",
       "posts/p6", "posts/p7", "posts/p8", "posts/p9", "posts/p10",
       "posts/p11", "posts/p12", "posts/p13", "posts/p14", "posts/p15",
       "posts/p16", "posts/p17", "posts/p18", "posts/p19", "posts/p20",
       "posts/p21", "posts/p22", "posts/p23", "posts/p24", "posts/p25",
       "posts/p26", "posts/p27", "posts/p28", "posts/p29", "posts/p30" >>

\* At most MaxPosts files match posts/*.txt.
MaxPosts == 25

\* The dates of the stories: between those of posts 1, 10 and 11, 20 and 21.
StoryDates == {1, 21, 41}

StoryName(d) ==
    CASE d = 1 -> "stories/s1" [] d = 21 -> "stories/s21" [] d = 41 -> "stories/s41"

\* A source file with what its .meta file holds; es tells whether the
\* translated source (<source_path>.es) exists. Dates are minutes.
PostFile(k) ==
    [wildcard |-> "posts/*.txt", name |-> PostNames[k], date |-> 2 * k,
     title |-> <<"Post ">> \o IntStr(k), pagename |-> <<"p">> \o IntStr(k),
     es |-> (k = 1)]

StoryFile(d) ==
    [wildcard |-> "stories/*.txt", name |-> StoryName(d), date |-> d,
     title |-> <<"Story ">> \o IntStr(d), pagename |-> <<"s">> \o IntStr(d),
     es |-> FALSE]

Corpora ==
    {{PostFile(k) : k \in 1 .. n} \cup {StoryFile(d) : d \in S} :
        n \in 0 .. MaxPosts, S \in SUBSET StoryDates}

\* glob.glob(wildcard): the matching files in the order of the listing.
glob_posts(files) ==
    LET listed == SelectSeq(PostNames, LAMBDA name : \E f \in files : f.name = name)
    IN  List([n \in 1 .. Len(listed) |-> CHOOSE f \in files : f.name = listed[n]])

glob_stories(files) ==
    LET story(d) == IF StoryFile(d) \in files THEN <<StoryFile(d)>> ELSE <<>>
    IN  story(1) \o story(21) \o story(41)

glob_wildcard(files, wildcard) ==
    IF wildcard = "posts/*.txt" THEN glob_posts(files) ELSE glob_stories(files)

\* self.config['post_pages']: (wildcard, destination, template, use_in_feeds)
post_pages ==
    << [wildcard |-> "posts/*.txt", destination |-> <<"posts">>,
        template_name |-> "post.tmpl", use_in_feeds |-> TRUE],
       [wildcard |-> "stories/*.txt", destination |-> <<"stories">>,
        template_name |-> "story.tmpl", use_in_feeds |-> FALSE] >>

\* Post(base_path, destination, use_in_feeds, ...)
Post(file, destination, use_in_feeds) ==
    [use_in_feeds |-> use_in_feeds,
     source_path |-> <<file.name, ".txt">>,
     post_name |-> file.name,
     base_path |-> <<file.name, ".html">>,
     metadata_path |-> <<file.name, ".meta">>,
     folder |-> destination,
     date |-> file.date,
     default_title |-> file.title,
     default_pagename |-> file.pagename,
     source_es |-> file.es]

\* Post.fragment_deps(lang)
fragment_deps(post, lang) ==
    <<post.source_path, post.metadata_path>>
    \o (IF lang # DEFAULT_LANG /\ post.source_es
        THEN <<post.source_path \o <<".", lang>>>>
        ELSE <<>>)

\* Dependencies of a page that leave the compiled fragments out.
post_deps_sources_only(post, lang) == fragment_deps(post, lang)

\* Post.deps(lang)
post_deps(post, lang) ==
    <<post.base_path>>
    \o (IF lang # DEFAULT_LANG THEN <<post.base_path \o <<".", lang>>>> ELSE <<>>)
    \o fragment_deps(post, lang)

(***************************************************************************)
(* Nikola.scan_posts (nikola.py 384-404).                                  *)
(***************************************************************************)
\* Lines 388-394: the Post objects in the order they are made.
scanned_posts(files) ==
    Concat([p \in 1 .. Len(post_pages) |->
              LET matched == glob_wildcard(files, post_pages[p].wildcard)
              IN  [i \in 1 .. Len(matched) |->
                      Post(matched[i], post_pages[p].destination,
                           post_pages[p].use_in_feeds)]])

\* Line 395: self.global_data[post.post_name] = post, for each in turn;
\* the table holds the position of the post in posts.
global_data_of(posts) ==
    PyDict_SetItems(EmptyDict,
                    List([i \in 1 .. Len(posts) |-> <<posts[i].post_name, <<i>>>>]))

\* list.sort(cmp=...): ascending by date, posts of one date in the order
\* they had (the sort is stable).
sort_by_date(posts) ==
    LET before(j, i) == \/ posts[j].date < posts[i].date
                        \/ posts[j].date = posts[i].date /\ j < i
        place == List([i \in 1 .. Len(posts) |->
                          Cardinality({j \in 1 .. Len(posts) : before(j, i)}) + 1])
    IN  List([n \in 1 .. Len(posts) |->
                posts[CHOOSE i \in 1 .. Len(posts) : place[i] = n]])

Reverse(seq) == List([i \in 1 .. Len(seq) |-> seq[Len(seq) + 1 - i]])

\* Lines 388-402, one statement after the other (the tuple holds what each
\* leaves): the values of global_data, sorted by date, reversed.
scan_timeline(files) ==
    LET posts == scanned_posts(files)
        data == global_data_of(posts)
        items == PyDict_Items(data)
        vals  == List([i \in 1 .. Len(items) |-> posts[items[i].v[1]]])
        sorted == sort_by_date(vals)
    IN  <<posts, data, items, vals, sorted, Reverse(sorted)>>[6]

(***************************************************************************)
(* mako_templates.template_deps with its module-level cache                *)
(* (mako_templates.py 11, 44-54): the list it returns is the cached one.   *)
(***************************************************************************)
EmptyCache == [n \in {} |-> <<>>]

RECURSIVE cache_fill(_, _)

\* for fname in dep_filenames: deps += template_deps(fname)
RECURSIVE template_deps_loop(_, _, _, _)
template_deps_loop(acc, seq, lo, hi) ==
    IF lo > hi THEN acc
    ELSE IF lo = hi THEN cache_fill(acc, seq[lo])
    ELSE LET half == template_deps_loop(acc, seq, lo, (lo + hi) \div 2)
         IN  <<half, template_deps_loop(half, seq, ((lo + hi) \div 2) + 1, hi)>>[2]

cache_fill(c, template_name) ==
    IF template_name \in DOMAIN c THEN c
    ELSE LET dep_filenames == get_deps(template_name)
             filled == template_deps_loop(c, dep_filenames, 1, Len(dep_filenames))
             deps   == <<template_filename(template_name)>>
                       \o Concat([i \in 1 .. Len(dep_filenames) |->
                                     filled[dep_filenames[i]]])
         IN  [n \in DOMAIN filled \cup {template_name} |->
                 IF n = template_name THEN deps ELSE filled[n]]

(***************************************************************************)
(* The configuration the site is built with.                               *)
(***************************************************************************)
Titles == {<<"My Blog">>, <<"Our Blog">>}

\* The languages of TRANSLATIONS, in the order conf.py writes them.
LangLists == {<<"en">>, <<"en", "es">>}

translations_dict(langs) ==
    kwargs([i \in 1 .. Len(langs) |-> <<langs[i], PickleStr(TRANSLATIONS(langs[i]))>>])

\* for key in d: the keys in the order of the table.
dict_keys(tab) ==
    LET items == PyDict_Items(tab) IN List([i \in 1 .. Len(items) |-> items[i].k])

\* task.get(key, default)
task_get(task, key, default) == IF key \in DOMAIN task THEN task[key] ELSE default

(***************************************************************************)
(* Nikola.generic_post_list_renderer (nikola.py 571-593).                  *)
(***************************************************************************)
post_list_context(lang, posts, extra_context, blog_title) ==
    LET context == [posts |-> [i \in 1 .. Len(posts) |-> posts[i].post_name],
                    title |-> PyStr(blog_title),
                    lang |-> PyStr(<<lang>>),
                    prevlink |-> None,
                    nextlink |-> None]
    IN  extra_context @@ context                          \* context.update

\* The task and the cache after the call: deps += post.deps(lang) extends
\* the list that the cache holds.  The statements run in order: the tuple
\* holds what each leaves, and its last value is the result.
generic_post_list_renderer(lang, posts, output_name, template_name, extra_context, blog_title, c) ==
    LET filled  == cache_fill(c, template_name)
        deps    == filled[template_name]
                   \o Concat([i \in 1 .. Len(posts) |-> post_deps(posts[i], lang)])
        context == post_list_context(lang, posts, extra_context, blog_title)
        task    == [name |-> output_name,
                    targets |-> <<output_name>>,
                    file_dep |-> deps,
                    actions |-> <<[fn |-> "render_template",
                                   template_name |-> template_name,
                                   dst |-> output_name,
                                   context |-> context]>>,
                    clean |-> TRUE,
                    uptodate |-> <<[t |-> "md5", context |-> context]>>]
    IN  <<filled, deps, context,
          [task |-> task, cache |-> [filled EXCEPT ![template_name] = deps]]>>[4]

(***************************************************************************)
(* Nikola.gen_task_render_indexes (nikola.py 518-569).                     *)
(***************************************************************************)
PageSize == 10

\* Line 529: the posts of the timeline that go into the feeds.
feed_posts(tl) == SelectSeq(tl, LAMBDA x : x.use_in_feeds)

\* A split whose pages each start with the last post of the page before.
RECURSIVE split_lists_overlapping(_)
split_lists_overlapping(posts) ==
    IF posts = <<>> THEN <<>>
    ELSE <<SubSeq(posts, 1, Min(PageSize, Len(posts)))>>
         \o split_lists_overlapping(SubSeq(posts, PageSize, Len(posts)))

\* Lines 531-534: while posts: lists.append(posts[:10]); posts = posts[10:]
RECURSIVE split_lists(_)
split_lists(posts) ==
    IF posts = <<>> THEN <<>>
    ELSE <<SubSeq(posts, 1, Min(PageSize, Len(posts)))>>
         \o split_lists(SubSeq(posts, PageSize + 1, Len(posts)))

\* A prevlink that names page 0 as index-0.html.
index_prevlink_numbered(i) ==
    IF i >= 1 THEN PyStr(<<"index", "-">> \o IntStr(i - 1) \o <<".html">>) ELSE None

\* Lines 548-555.
index_prevlink(i) ==
    IF i = 1 THEN PyStr(<<"index", ".html">>)
    ELSE IF i > 1 THEN PyStr(<<"index", "-">> \o IntStr(i - 1) \o <<".html">>)
    ELSE None

index_nextlink(i, num_pages) ==
    IF i < num_pages - 1 THEN PyStr(<<"index", "-">> \o IntStr(i + 1) \o <<".html">>)
    ELSE None

render_indexes_kw(cfg) ==
    kwargs(<< <<"translations", cPickle_dumps(cfg.TRANSLATIONS)>>,
              <<"output_folder", PickleStr(OUTPUT_FOLDER)>> >>)

\* A fingerprint that also covers the file_dep list of the task.
uptodate_with_file_dep(task, kw) ==
    <<[t |-> "md5", file_dep |-> task.file_dep], config_digest(PyDict(kw))>>

\* Lines 566-567: task['uptodate'] = task.get('updtodate', []) + [config_changed(kw)]
render_indexes_uptodate(task, kw) ==
    task_get(task, "updtodate", <<>>) \o <<config_digest(PyDict(kw))>>

\* Lines 543-569, the body of the loops: the task of one (language, page)
\* pair joins the tasks yielded so far, and the cache is the one the
\* renderer leaves.
render_index_page(yielded, pair, lists, cfg) ==
    LET context == [prevlink |-> index_prevlink(pair.i),
                    nextlink |-> index_nextlink(pair.i, Len(lists)),
                    permalink |-> PyStr(link("index", pair.i, pair.lang))]
        output_name == os_path_join(<<OUTPUT_FOLDER,
                                      path("index", pair.i, pair.lang, FALSE)>>)
        r    == generic_post_list_renderer(pair.lang, lists[pair.i + 1], output_name,
                                           "index.tmpl", context,
                                           cfg.BLOG_TITLE, yielded.cache)
        task == [uptodate |-> render_indexes_uptodate(r.task, render_indexes_kw(cfg)),
                 basename |-> "render_indexes"] @@ r.task
    IN  <<r, task, [tasks |-> Append(yielded.tasks, task), cache |-> r.cache]>>[3]

\* The pairs lo .. hi of the loops, in turn.
RECURSIVE render_indexes_loop(_, _, _, _, _, _)
render_indexes_loop(acc, seq, lo, hi, lists, cfg) ==
    IF lo > hi THEN acc
    ELSE IF lo = hi THEN render_index_page(acc, seq[lo], lists, cfg)
    ELSE LET half == render_indexes_loop(acc, seq, lo, (lo + hi) \div 2, lists, cfg)
         IN  <<half, render_indexes_loop(half, seq, ((lo + hi) \div 2) + 1, hi, lists, cfg)>>[2]

\* Lines 541-542: for lang in kw["translations"]: for i, post_list in
\* enumerate(lists).
\* A derivation with the placeholder inside the loop over the languages.
gen_task_render_indexes_placeholder_per_lang(tl, cfg, c) ==
    LET lists == split_lists(feed_posts(tl))
        langs == dict_keys(cfg.TRANSLATIONS)
    IN  [tasks |-> [l \in 1 .. Len(langs) |-> [basename |-> "render_indexes", actions |-> <<>>]],
         cache |-> c]

gen_task_render_indexes(tl, cfg, c) ==
    LET lists == split_lists(feed_posts(tl))
        langs == dict_keys(cfg.TRANSLATIONS)
        pairs == Concat([l \in 1 .. Len(langs) |->
                           [n \in 1 .. Len(lists) |-> [lang |-> langs[l], i |-> n - 1]]])
        r     == render_indexes_loop([tasks |-> <<>>, cache |-> c], pairs, 1, Len(pairs),
                                     lists, cfg)
    IN  [tasks |-> (IF lists = <<>>                        \* if not lists
                    THEN <<[basename |-> "render_indexes", actions |-> <<>>]>>
                    ELSE <<>>) \o r.tasks,
         cache |-> r.cache]

(***************************************************************************)
(* The derivations of the index tasks: a process starts (Nikola.__init__,  *)
(* nikola.py 166-212) and derives the tasks, once or again.                *)
(***************************************************************************)
MaxBuilds == 2

\* Nikola(**config) in a new process: nothing scanned, nothing cached.
NikolaInit ==
    /\ Len(builds) < MaxBuilds
    /\ \E title \in Titles :
          site_config' = [site_config EXCEPT !.BLOG_TITLE = title]
    /\ scanned' = FALSE
    /\ timeline' = <<>>
    /\ cache' = EmptyCache
    /\ UNCHANGED <<post_files, index_tasks, prev_build, builds>>
    /\ UNCHANGED notSite

\* gen_task_render_indexes, scan_posts included.
GenTaskRenderIndexes ==
    /\ Len(builds) < MaxBuilds
    /\ LET tl == IF scanned THEN timeline ELSE scan_timeline(post_files)
           r  == gen_task_render_indexes(tl, site_config, cache)
       IN  /\ timeline' = tl
           /\ scanned' = TRUE
           /\ cache' = r.cache
           /\ index_tasks' = r.tasks
    /\ prev_build' = [config |-> IF builds = <<>> THEN site_config
                                 ELSE builds[Len(builds)],
                      tasks |-> index_tasks]
    /\ builds' = Append(builds, site_config)
    /\ UNCHANGED <<post_files, site_config>>
    /\ UNCHANGED notSite

StepIndexes ==
    \/ NikolaInit
    \/ GenTaskRenderIndexes

IdleSiteVars ==
    /\ post_files = {}
    /\ site_config = [BLOG_TITLE |-> <<"My Blog">>, TRANSLATIONS |-> EmptyDict]
    /\ scanned = FALSE
    /\ timeline = <<>>
    /\ cache = EmptyCache
    /\ index_tasks = <<>>
    /\ prev_build = [config |-> site_config, tasks |-> <<>>]
    /\ builds = <<[BLOG_TITLE |-> <<"My Blog">>, TRANSLATIONS |-> EmptyDict],
                  [BLOG_TITLE |-> <<"My Blog">>, TRANSLATIONS |-> EmptyDict]>>

InitSiteVars ==
    /\ post_files \in Corpora
    /\ site_config \in [BLOG_TITLE : Titles,
                         TRANSLATIONS : {translations_dict(l) : l \in LangLists}]
    /\ scanned = FALSE
    /\ timeline = <<>>
    /\ cache = EmptyCache
    /\ index_tasks = <<>>
    /\ prev_build = [config |-> site_config, tasks |-> <<>>]
    /\ builds = <<>>

(***************************************************************************)
(* Properties of the index tasks.                                          *)
(***************************************************************************)
\* The tasks that render a page: those with a name.
RenderingTasks(tasks) == {k \in 1 .. Len(tasks) : "name" \in DOMAIN tasks[k]}

Context(task) == task.actions[1].context

\* The number of feed-eligible posts among the source files.
NumFeedPosts == Cardinality({f \in post_files : f.wildcard = "posts/*.txt"})

\* ceil(n / PageSize)
NumPages(n) == (n + PageSize - 1) \div PageSize

IndexOutputName(i, lang) == os_path_join(<<OUTPUT_FOLDER, path("index", i, lang, FALSE)>>)

\* The tasks of the latest derivation that render page i in lang.
PageTasks(i, lang) ==
    {k \in RenderingTasks(index_tasks) : index_tasks[k].name = IndexOutputName(i, lang)}

ConfiguredLangs == Range(dict_keys(site_config.TRANSLATIONS))

\* C5: with n >= 1 feed-eligible posts on P pages, in every language, page 0
\* has no prevlink, page 1 has prevlink index.html, page i > 1 has prevlink
\* index-(i-1).html, page i < P-1 has nextlink index-(i+1).html, the last
\* page has no nextlink; 25 posts give pages 0, 1 and 2 and no other.
C5_PaginationLinks ==
    (builds # <<>> /\ NumFeedPosts >= 1) =>
        \A lang \in ConfiguredLangs :
            /\ \A i \in 0 .. NumPages(NumFeedPosts) - 1 :
                  /\ PageTasks(i, lang) # {}
                  /\ \A k \in PageTasks(i, lang) :
                        LET context == Context(index_tasks[k])
                        IN  /\ i = 0 => context.prevlink = None
                            /\ i = 1 => context.prevlink = PyStr(<<"index", ".html">>)
                            /\ i > 1 => context.prevlink =
                                   PyStr(<<"index", "-">> \o IntStr(i - 1) \o <<".html">>)
                            /\ i < NumPages(NumFeedPosts) - 1 => context.nextlink =
                                   PyStr(<<"index", "-">> \o IntStr(i + 1) \o <<".html">>)
                            /\ i = NumPages(NumFeedPosts) - 1 => context.nextlink = None
            /\ NumFeedPosts = 25 =>
                  /\ \A i \in 0 .. 2 : PageTasks(i, lang) # {}
                  /\ \A i \in 3 .. MaxPage : PageTasks(i, lang) = {}

\* 25 posts in two languages are derived: page 1 links back to index.html
\* and on to index-2.html.
C5_Witness ==
    /\ builds # <<>>
    /\ NumFeedPosts = 25
    /\ ConfiguredLangs = {"en", "es"}
    /\ \E k \in PageTasks(1, "es") :
          /\ Context(index_tasks[k]).prevlink = PyStr(<<"index", ".html">>)
          /\ Context(index_tasks[k]).nextlink = PyStr(<<"index", "-", "2", ".html">>)

\* C6: once the process has derived the index tasks, the page lists, in
\* page order, make up the feed-eligible timeline;
\* every page but the last holds 10 posts, the last 1 to 10; there are
\* ceil(n/10) pages and one rendering task per (page, language).
C6_PaginationPartitions ==
    (builds # <<>> /\ scanned) =>
        LET P == NumPages(NumFeedPosts)
            feed == feed_posts(timeline)
        IN  /\ Len(feed) = NumFeedPosts
            /\ Cardinality(RenderingTasks(index_tasks)) = P * Cardinality(ConfiguredLangs)
            /\ \A lang \in ConfiguredLangs :
                  /\ \A i \in 0 .. P - 1 : Cardinality(PageTasks(i, lang)) = 1
                  /\ \A i \in 0 .. P - 1 : \A k \in PageTasks(i, lang) :
                        LET posts == Context(index_tasks[k]).posts
                        IN  /\ i < P - 1 => Len(posts) = PageSize
                            /\ i = P - 1 => Len(posts) \in 1 .. PageSize
                            /\ \A j \in 1 .. Len(posts) :
                                  /\ i * PageSize + j <= Len(feed)
                                  /\ posts[j] = feed[i * PageSize + j].post_name
                  /\ \A j \in 1 .. Len(feed) :
                        \E k \in PageTasks((j - 1) \div PageSize, lang) :
                            Context(index_tasks[k]).posts[((j - 1) % PageSize) + 1]
                                = feed[j].post_name

\* 23 posts and stories between them are derived in two languages: three
\* pages, the last with 3 posts, and no story on any page.
C6_Witness ==
    /\ builds # <<>>
    /\ scanned
    /\ NumFeedPosts = 23
    /\ Len(timeline) = 26
    /\ ConfiguredLangs = {"en", "es"}
    /\ \E k \in PageTasks(2, "en") : Len(Context(index_tasks[k]).posts) = 3

TaskKey(task) == [basename |-> task.basename, name |-> task_get(task, "name", <<>>)]

\* The values of a context that come from no file.
NonFileValues(context) ==
    [title |-> context.title, prevlink |-> context.prevlink,
     nextlink |-> context.nextlink, permalink |-> context.permalink]

\* C2: when two builds over the same files put different non-file values
\* into the rendering context of a task, the fingerprints attached to the
\* task's uptodate differ between the two builds.
C2_FingerprintCoversContext ==
    Len(builds) = 2 =>
        \A k \in RenderingTasks(index_tasks), j \in RenderingTasks(prev_build.tasks) :
            (/\ TaskKey(index_tasks[k]) = TaskKey(prev_build.tasks[j])
             /\ NonFileValues(Context(index_tasks[k]))
                    # NonFileValues(Context(prev_build.tasks[j])))
            => index_tasks[k].uptodate # prev_build.tasks[j].uptodate

IsSpace(c) == c \in {" ", "\t", "\n"}

RECURSIVE lstrip(_)
lstrip(s) == IF s # <<>> /\ IsSpace(Head(s)) THEN lstrip(Tail(s)) ELSE s

RECURSIVE rstrip(_)
rstrip(s) == IF s # <<>> /\ IsSpace(s[Len(s)]) THEN rstrip(SubSeq(s, 1, Len(s) - 1)) ELSE s

\* x.strip()
strip(s) == rstrip(lstrip(s))

\* s.split(','): the pieces between the commas.
RECURSIVE split_comma(_, _)
split_comma(s, piece) ==
    IF s = <<>> THEN <<piece>>
    ELSE IF Head(s) = "," THEN <<piece>> \o split_comma(Tail(s), <<>>)
    ELSE split_comma(Tail(s), Append(piece, Head(s)))

\* while len(meta_data) < n: meta_data.append("")
pad_lines(meta_data, n) ==
    meta_data \o [i \in 1 .. (IF Len(meta_data) < n THEN n - Len(meta_data) ELSE 0) |-> <<>>]

\* datetime.datetime(year, month, day, hour, minute), as the minutes it
\* counts: later dates are greater.
datetime(year, month, day, hour, minute) ==
    ((((year * 12 + (month - 1)) * 31 + (day - 1)) * 24 + hour) * 60) + minute

datetime_year(date) == date \div (12 * 31 * 24 * 60)

\* A strptime that reads every line it cannot parse as one fixed date.
strptime_lenient(s) ==
    IF s = <<"2021/01/15 09:00">> THEN [date |-> datetime(2021, 1, 15, 9, 0)]
    ELSE [date |-> datetime(2020, 3, 1, 10, 0)]

\* datetime.datetime.strptime(s, '%Y/%m/%d %H:%M') on the date lines of
\* this model: the date, or ValueError.
strptime(s) ==
    CASE s = <<"0999/06/01 12:00">> -> [date |-> datetime(999, 6, 1, 12, 0)]
      [] s = <<"2020/03/01 10:00">> -> [date |-> datetime(2020, 3, 1, 10, 0)]
      [] s = <<"2020/11/05 08:30">> -> [date |-> datetime(2020, 11, 5, 8, 30)]
      [] s = <<"2021/01/15 09:00">> -> [date |-> datetime(2021, 1, 15, 9, 0)]
      [] OTHER -> [raised |-> "ValueError"]

\* The date lines that parse.
GoodDates == {<<"0999/06/01 12:00">>, <<"2020/03/01 10:00">>, <<"2020/11/05 08:30">>, <<"2021/01/15 09:00">>}

\* Lines 84-85: the tags, stripped, the empty ones dropped.
post_tags(line) ==
    LET pieces == split_comma(line, <<>>)
    IN  SelectSeq([i \in 1 .. Len(pieces) |-> strip(pieces[i])], LAMBDA x : x # <<>>)

\* A translation that takes the default values whatever its file holds.
lang_metadata_default_only(override, default_title, default_pagename) ==
    [title |-> default_title, pagename |-> default_pagename]

\* Lines 96-106: the title and the page name of a translation.  override
\* is the .meta.<lang> file: absent, unreadable (codecs raises while it
\* decodes) or a list of lines.
lang_metadata(override, default_title, default_pagename) ==
    IF override.st # "ok"
    THEN [title |-> default_title, pagename |-> default_pagename]      \* except:
    ELSE LET meta_data == pad_lines([i \in 1 .. Len(override.lines) |->
                                        strip(override.lines[i])], 2)
         IN  [title |-> IF meta_data[1] # <<>> THEN meta_data[1] ELSE default_title,
              pagename |-> IF meta_data[2] # <<>> THEN meta_data[2]
                           ELSE default_pagename]

\* Post.__init__: the post, or the exception it raises.  file is the
\* source file with its metadata: [name, wildcard, meta, overrides, es].
Post_init(file, destination, use_in_feeds, translations, default_lang) ==
    IF file.meta.st # "ok" THEN [raised |-> "IOError"]                  \* line 77
    ELSE
    LET meta_data == pad_lines(file.meta.lines, 5)
        stripped  == [i \in 1 .. 5 |-> strip(meta_data[i])]
        default_title == stripped[1]
        default_pagename == stripped[2]
        parsed    == strptime(stripped[3])
        langs     == Range(dict_keys(translations))
        per_lang  == [lang \in langs |->
                        IF lang = default_lang
                        THEN [title |-> default_title, pagename |-> default_pagename]
                        ELSE lang_metadata(file.overrides[lang], default_title,
                                           default_pagename)]
    IN  IF "raised" \in DOMAIN parsed THEN parsed                        \* line 83
        ELSE [titles |-> [lang \in langs |-> per_lang[lang].title],
              pagenames |-> [lang \in langs |-> per_lang[lang].pagename],
              tags |-> post_tags(stripped[4]),
              link |-> stripped[5]]
             @@ Post([name |-> file.name, date |-> parsed.date,
                      title |-> default_title, pagename |-> default_pagename,
                      es |-> file.es],
                     destination, use_in_feeds)

\* Post.title(lang)
post_title(post, lang) == post.titles[lang]

(***************************************************************************)
(* The metadata files a post is constructed from.                          *)
(***************************************************************************)
TitleLines == {<<"Hello", " ", "world", "\n">>, <<" ", "Hello", "\n">>, <<"\n">>, <<" ", "\n">>}

PagenameLines == {<<"hello-world", "\n">>, <<"\n">>}

TagLines == {<<"a", ",", " ", "b", "\n">>, <<" ", ",", "a", "\n">>, <<"\n">>}

\* The metadata files: up to five lines (title, page name, date, tags,
\* link), or no file.
MetaFiles ==
    {[st |-> "absent", lines |-> <<>>]}
    \cup {[st |-> "ok",
           lines |-> SubSeq(<<t, p, d \o <<"\n">>, g, <<"http://example.com/", "\n">> >>, 1, n)] :
            t \in TitleLines, p \in PagenameLines,
            d \in {<<"2020/03/01 10:00">>, <<"2020-03-01 10:00">>},
            g \in TagLines, n \in 0 .. 5}

\* The .meta.<lang> files: none, one that does not decode, or up to two
\* lines (title, page name).
OverrideFiles ==
    {[st |-> "absent", lines |-> <<>>], [st |-> "unreadable", lines |-> <<>>]}
    \cup {[st |-> "ok", lines |-> SubSeq(<<t, p>>, 1, n)] :
            t \in {<<"Hola", "\n">>, <<"\n">>}, p \in {<<"hola", "\n">>, <<" ", "\n">>},
            n \in 0 .. 2}

\* Post(...) in scan_posts (lines 391-394), for one source file.
PostInit ==
    /\ post_obj = [t |-> "none"]
    /\ post_obj' = Post_init(source_file, <<"posts">>, TRUE, post_translations, DEFAULT_LANG)
    /\ UNCHANGED <<source_file, post_translations>>
    /\ UNCHANGED notPost

IdlePostVars ==
    /\ source_file = [t |-> "none"]
    /\ post_translations = EmptyDict
    /\ post_obj = [t |-> "idle"]

InitPostVars ==
    /\ source_file \in [name : {"posts/p1"}, wildcard : {"posts/*.txt"}, es : {FALSE},
                       meta : MetaFiles, overrides : [{"es"} -> OverrideFiles]]
    /\ post_translations \in {translations_dict(l) : l \in LangLists}
    /\ post_obj = [t |-> "none"]

Constructed(p) == "titles" \in DOMAIN p

\* C15: every post that is constructed has a title and a page name in the
\* default language that are not empty.
C15_DefaultTitleNeverEmpty ==
    Constructed(post_obj) =>
        /\ post_title(post_obj, DEFAULT_LANG) # <<>>
        /\ post_obj.pagenames[DEFAULT_LANG] # <<>>

\* C16: construction does not fail over the metadata file of a translation,
\* and in each language other than the default one the title and the page
\* name are the field of that file where it has one (not blank) and the
\* default-language value where the file is absent, unreadable or lacks
\* the field.
OverrideField(override, n) ==
    IF override.st = "ok" /\ Len(override.lines) >= n
    THEN strip(override.lines[n]) ELSE <<>>

C16_TranslationFallback ==
    /\ (post_obj # [t |-> "none"] /\ source_file.meta.st = "ok"
        /\ Len(source_file.meta.lines) >= 3
        /\ strip(source_file.meta.lines[3]) \in GoodDates) => Constructed(post_obj)
    /\ Constructed(post_obj) =>
        \A lang \in DOMAIN post_obj.titles \ {DEFAULT_LANG} :
            LET title == OverrideField(source_file.overrides[lang], 1)
                slug  == OverrideField(source_file.overrides[lang], 2)
            IN  /\ post_title(post_obj, lang) =
                      (IF title # <<>> THEN title
                       ELSE post_title(post_obj, DEFAULT_LANG))
                /\ post_obj.pagenames[lang] =
                      (IF slug # <<>> THEN slug
                       ELSE post_obj.pagenames[DEFAULT_LANG])

\* A post in two languages whose translation has a title of its own and
\* no page name.
C16_Witness ==
    /\ Constructed(post_obj)
    /\ "es" \in DOMAIN post_obj.titles
    /\ post_title(post_obj, "es") = <<"Hola">>
    /\ post_title(post_obj, "es") # post_title(post_obj, DEFAULT_LANG)
    /\ post_obj.pagenames["es"] = post_obj.pagenames[DEFAULT_LANG]
    /\ post_obj.pagenames["es"] # <<>>

(***************************************************************************)
(* Nikola.scan_posts (nikola.py 384-404) over source files whose metadata  *)
(* is read by Post.__init__, and what it leaves in global_data,            *)
(* posts_per_year, posts_per_tag and timeline.                             *)
(***************************************************************************)
\* The key a dict holds for a string: the strings of one token are their
\* token, the years are the keys "999", "2020" and "2021".
Intern(s) ==
    CASE s = <<"9", "9", "9">> -> "999"
      [] s = <<"2", "0", "2", "0">> -> "2020"
      [] s = <<"2", "0", "2", "1">> -> "2021"
      [] OTHER -> s[1]

\* The characters of a key.
Chars(k) ==
    CASE k = "999" -> <<"9", "9", "9">>
      [] k = "2020" -> <<"2", "0", "2", "0">>
      [] k = "2021" -> <<"2", "0", "2", "1">>
      [] OTHER -> <<k>>

\* str(post.date.year)
str_year(date) == IntStr(datetime_year(date))

\* d[key].append(x) on a defaultdict(list)
defaultdict_append(tab, key, x) ==
    IF HasKey(tab, key)
    THEN [tab EXCEPT ![Lookup(tab, key)].v = Append(@, x)]
    ELSE PyDict_SetItem(tab, key, <<x>>)

\* d[key]
PyDict_GetItem(tab, key) == tab[Lookup(tab, key)].v

\* glob.glob(wildcard) over source files that carry their metadata: the
\* matching files in the order of the listing.
ListingOrder == PostNames \o <<"stories/s1", "stories/s21", "stories/s41">>

glob_sources(files, wildcard) ==
    LET matches(name) == \E f \in files : f.name = name /\ f.wildcard = wildcard
        listed == SelectSeq(ListingOrder, matches)
    IN  List([n \in 1 .. Len(listed) |-> CHOOSE f \in files : f.name = listed[n]])

\* Lines 388-390: the (base_path, destination, use_in_feeds) of the Post
\* calls, in the order scan_posts makes them.
scan_order(files) ==
    Concat([p \in 1 .. Len(post_pages) |->
              LET matched == glob_sources(files, post_pages[p].wildcard)
              IN  [i \in 1 .. Len(matched) |->
                      [file |-> matched[i],
                       destination |-> post_pages[p].destination,
                       use_in_feeds |-> post_pages[p].use_in_feeds]]])

\* Lines 397-398: for tag in post.tags, for the tags lo .. hi.
RECURSIVE posts_per_tag_loop(_, _, _, _, _)
posts_per_tag_loop(acc, seq, lo, hi, post_name) ==
    IF lo > hi THEN acc
    ELSE IF lo = hi THEN defaultdict_append(acc, Intern(seq[lo]), post_name)
    ELSE LET half == posts_per_tag_loop(acc, seq, lo, (lo + hi) \div 2, post_name)
         IN  <<half, posts_per_tag_loop(half, seq, ((lo + hi) \div 2) + 1, hi, post_name)>>[2]

\* Lines 391-398, the body of the loops for one source file.  Once Post
\* has raised, the exception leaves the loops: the files after it are not
\* read.  self is [global_data, posts_per_year, posts_per_tag, raised].
scan_one_post(self, x, translations) ==
    IF self.raised # "none" THEN self
    ELSE LET post == Post_init(x.file, x.destination, x.use_in_feeds, translations,
                               DEFAULT_LANG)
         IN  IF "raised" \in DOMAIN post THEN [self EXCEPT !.raised = post.raised]
             ELSE LET gd  == PyDict_SetItem(self.global_data, post.post_name, post)
                      ppy == defaultdict_append(self.posts_per_year,
                                                Intern(str_year(post.date)),
                                                post.post_name)
                      ppt == posts_per_tag_loop(self.posts_per_tag, post.tags, 1,
                                                Len(post.tags), post.post_name)
                  IN  <<gd, ppy, ppt,
                        [global_data |-> gd, posts_per_year |-> ppy,
                         posts_per_tag |-> ppt, raised |-> "none"]>>[4]

\* Lines 388-398 for the Post calls lo .. hi of the scan.
RECURSIVE scan_posts_loop(_, _, _, _, _)
scan_posts_loop(acc, seq, lo, hi, translations) ==
    IF lo > hi THEN acc
    ELSE IF lo = hi THEN scan_one_post(acc, seq[lo], translations)
    ELSE LET half == scan_posts_loop(acc, seq, lo, (lo + hi) \div 2, translations)
         IN  <<half, scan_posts_loop(half, seq, ((lo + hi) \div 2) + 1, hi, translations)>>[2]

\* A scan that does not look at self._scanned.
scan_always(_scanned) == TRUE

\* Whether scan_posts has work to do (line 386).
scan_needed(_scanned) == ~_scanned

\* A timeline left in ascending order.
timeline_not_reversed(tl) == tl

\* Line 402: self.timeline.reverse()
timeline_reverse(tl) == Reverse(tl)

\* Lines 399-403, once the loops have ended: the values of global_data
\* join the timeline, which is sorted by date and reversed.  When a Post
\* call raised, these lines do not run.
scan_posts_end(self, looped) ==
    IF looped.raised # "none"
    THEN looped @@ [timeline |-> self.timeline, _scanned |-> self._scanned]
    ELSE LET items == PyDict_Items(looped.global_data)
         IN  looped
             @@ [timeline |-> timeline_reverse(sort_by_date(
                                 self.timeline
                                 \o List([i \in 1 .. Len(items) |-> items[i].v]))),
                 _scanned |-> TRUE]

\* scan_posts: the fields of self after the call, and the exception it
\* raised ("none": it returned).
scan_posts(self, files, translations) ==
    IF ~scan_needed(self._scanned) THEN [raised |-> "none"] @@ self
    ELSE LET calls == scan_order(files)
         IN  scan_posts_end(self,
                            scan_posts_loop([global_data |-> self.global_data,
                                             posts_per_year |-> self.posts_per_year,
                                             posts_per_tag |-> self.posts_per_tag,
                                             raised |-> "none"],
                                            calls, 1, Len(calls), translations))

(***************************************************************************)
(* Nikola.gen_task_render_archive (nikola.py 595-654).                     *)
(***************************************************************************)
\* Post.permalink(lang)
permalink(post, lang) ==
    <<"/">> \o JoinSlash(FilterNone(<<TRANSLATIONS(lang), post.folder,
                                      post.pagenames[lang] \o <<".html">>>>))

\* cmp on two str: by the characters, a proper prefix first.  The
\* characters compared here are digits.
RECURSIVE str_less(_, _)
str_less(a, b) ==
    LET code(c) == CHOOSE i \in 1 .. Len(Digits) : Digits[i] = c
    IN  IF a = <<>> THEN b # <<>>
        ELSE IF b = <<>> THEN FALSE
        ELSE IF Head(a) = Head(b) THEN str_less(Tail(a), Tail(b))
        ELSE code(Head(a)) < code(Head(b))

\* years.sort(reverse=True) on the keys of a dict (no two equal).
sort_reverse(keys) ==
    LET place == List([i \in 1 .. Len(keys) |->
                          Cardinality({j \in 1 .. Len(keys) :
                                         str_less(Chars(keys[i]), Chars(keys[j]))}) + 1])
    IN  List([n \in 1 .. Len(keys) |->
                keys[CHOOSE i \in 1 .. Len(keys) : place[i] = n]])

\* kw of the call in gen_tasks (lines 337-339).
render_archive_kw(translations) ==
    kwargs(<< <<"translations", cPickle_dumps(translations)>>,
              <<"messages", PickleStr(<<"MESSAGES">>)>>,
              <<"output_folder", PickleStr(OUTPUT_FOLDER)>> >>)

BLOG_TITLE == <<"My Blog">>

\* Lines 608-631: the task of one (year, language) pair joins the tasks
\* yielded so far.  It gets no basename.
render_archive_year(yielded, pair, self, translations) ==
    LET year == Chars(pair.year)
        output_name == os_path_join(<<OUTPUT_FOLDER,
                                      path("archive", year, pair.lang, FALSE)>>)
        post_list == Reverse(sort_by_date(List([i \in 1 .. Len(pair.posts) |->
                          PyDict_GetItem(self.global_data, pair.posts[i])])))
        context == [lang |-> PyStr(<<pair.lang>>),
                    items |-> [i \in 1 .. Len(post_list) |->
                                  <<<<"[", post_list[i].date, "] ">>
                                    \o post_title(post_list[i], pair.lang),
                                    permalink(post_list[i], pair.lang)>>],
                    permalink |-> PyStr(link("archive", year, pair.lang)),
                    title |-> PyStr(<<pair.lang, "Posts for year ">> \o year)]
        r    == generic_post_list_renderer(pair.lang, post_list, output_name,
                                           "list.tmpl", context, BLOG_TITLE,
                                           yielded.cache)
        task == [uptodate |-> render_indexes_uptodate(r.task,
                                                      render_archive_kw(translations))]
                @@ r.task
    IN  <<post_list, r, task,
          [tasks |-> Append(yielded.tasks, task), cache |-> r.cache]>>[4]

\* Lines 637-654: the "all your years" task of one language.
render_archive_all(yielded, lang, years, translations) ==
    LET output_name == os_path_join(<<OUTPUT_FOLDER,
                                      path("archive", <<>>, lang, FALSE)>>)
        context == [title |-> PyStr(<<lang, "Archive">>),
                    items |-> [i \in 1 .. Len(years) |->
                                  <<Chars(years[i]),
                                    link("archive", Chars(years[i]), lang)>>],
                    permalink |-> PyStr(link("archive", <<>>, lang))]
        r    == generic_post_list_renderer(lang, <<>>, output_name, "list.tmpl",
                                           context, BLOG_TITLE, yielded.cache)
        task == [uptodate |-> render_indexes_uptodate(r.task,
                                                      render_archive_kw(translations)),
                 basename |-> "render_archive"] @@ r.task
    IN  <<r, task, [tasks |-> Append(yielded.tasks, task), cache |-> r.cache]>>[3]

RECURSIVE render_archive_year_loop(_, _, _, _, _, _)
render_archive_year_loop(acc, seq, lo, hi, self, translations) ==
    IF lo > hi THEN acc
    ELSE IF lo = hi THEN render_archive_year(acc, seq[lo], self, translations)
    ELSE LET half == render_archive_year_loop(acc, seq, lo, (lo + hi) \div 2, self, translations)
         IN  <<half, render_archive_year_loop(half, seq, ((lo + hi) \div 2) + 1, hi, self, translations)>>[2]

RECURSIVE render_archive_all_loop(_, _, _, _, _, _)
render_archive_all_loop(acc, seq, lo, hi, years, translations) ==
    IF lo > hi THEN acc
    ELSE IF lo = hi THEN render_archive_all(acc, seq[lo], years, translations)
    ELSE LET half == render_archive_all_loop(acc, seq, lo, (lo + hi) \div 2, years, translations)
         IN  <<half, render_archive_all_loop(half, seq, ((lo + hi) \div 2) + 1, hi, years, translations)>>[2]

\* gen_task_render_archive: the tasks it yields, in order.
gen_task_render_archive(self, translations, c) ==
    LET per_year == PyDict_Items(self.posts_per_year)
        langs == dict_keys(translations)
        pairs == Concat([y \in 1 .. Len(per_year) |->
                           [l \in 1 .. Len(langs) |->
                               [year |-> per_year[y].k, posts |-> per_year[y].v,
                                lang |-> langs[l]]]])
        yearly == render_archive_year_loop([tasks |-> <<>>, cache |-> c], pairs, 1,
                                           Len(pairs), self, translations)
        years == sort_reverse(dict_keys(self.posts_per_year))
    IN  <<per_year, langs, pairs, yearly, years,
          render_archive_all_loop(yearly, langs, 1, Len(langs), years,
                                  translations)>>[6]

(***************************************************************************)
(* The sites that are scanned: up to three posts and a story, each with    *)
(* the date line its metadata file holds.  The tags line of posts/p2       *)
(* names one tag twice, that of posts/p3 is empty.                         *)
(***************************************************************************)
ScanTagLine(name) ==
    CASE name = "posts/p1" -> <<"a", ",", " ", "b", "\n">>
      [] name = "posts/p2" -> <<"a", ",", " ", "a", "\n">>
      [] name = "posts/p3" -> <<"\n">>
      [] OTHER -> <<" ", "b", " ", ",", "\n">>

ScanSlug(name) ==
    CASE name = "posts/p1" -> <<"p1">>
      [] name = "posts/p2" -> <<"p2">>
      [] name = "posts/p3" -> <<"p3">>
      [] OTHER -> <<"s1">>

\* A source file and its .meta file, with dateline as the third line.
SourceFile(name, wildcard, dateline) ==
    [name |-> name, wildcard |-> wildcard, es |-> FALSE,
     meta |-> [st |-> "ok",
               lines |-> <<<<"Title of ", name, "\n">>, ScanSlug(name) \o <<"\n">>,
                           dateline \o <<"\n">>, ScanTagLine(name)>>],
     overrides |-> [lang \in {"es"} |-> [st |-> "absent", lines |-> <<>>]]]

PostDateLines == GoodDates \cup {<<"2020-03-01 10:00">>}

StoryDateLines == {<<"2020/03/01 10:00">>, <<"2021/01/15 09:00">>}

ScannedNames == {"posts/p1", "posts/p2", "posts/p3"}

ScanCorpora ==
    {{SourceFile(n, "posts/*.txt", d[n]) : n \in DOMAIN d}
     \cup {SourceFile("stories/s1", "stories/*.txt", sd) : sd \in S} :
        d \in UNION {[N -> PostDateLines] : N \in SUBSET ScannedNames},
        S \in {{}} \cup {{sd} : sd \in StoryDateLines}}

MaxScanCalls == 2

\* The fields of self that scan_posts reads and writes.
ScanSelf ==
    [global_data |-> global_data, posts_per_year |-> posts_per_year,
     posts_per_tag |-> posts_per_tag, timeline |-> sc_timeline,
     _scanned |-> sc_scanned]

\* The fields of self as a call of scan_posts leaves them.
ScanPostsLeaves(r) ==
    /\ global_data' = r.global_data
    /\ posts_per_year' = r.posts_per_year
    /\ posts_per_tag' = r.posts_per_tag
    /\ sc_timeline' = r.timeline
    /\ sc_scanned' = r._scanned
    /\ sc_raised' = r.raised

\* self.scan_posts(), as the generators call it (lines 445, 465, 495, 526,
\* 753).  An exception ends the process.
ScanPosts ==
    /\ sc_raised = "none"
    /\ sc_calls < MaxScanCalls
    /\ ScanPostsLeaves(scan_posts(ScanSelf, src_files, sc_translations))
    /\ sc_calls' = sc_calls + 1
    /\ UNCHANGED <<src_files, sc_translations, archive_tasks>>
    /\ UNCHANGED notScan

\* gen_task_render_archive, once the generators before it have scanned
\* (gen_tasks, lines 321-339).
GenTaskRenderArchive ==
    /\ sc_raised = "none"
    /\ sc_scanned
    /\ archive_tasks = <<>>
    /\ archive_tasks' = gen_task_render_archive(ScanSelf, sc_translations,
                                                EmptyCache).tasks
    /\ UNCHANGED <<src_files, sc_translations, global_data, posts_per_year,
                   posts_per_tag, sc_timeline, sc_scanned, sc_raised, sc_calls>>
    /\ UNCHANGED notScan

StepScan ==
    \/ ScanPosts
    \/ GenTaskRenderArchive

IdleScanVars ==
    /\ src_files = {}
    /\ sc_translations = EmptyDict
    /\ global_data = EmptyDict
    /\ posts_per_year = EmptyDict
    /\ posts_per_tag = EmptyDict
    /\ sc_timeline = <<>>
    /\ sc_scanned = FALSE
    /\ sc_raised = "none"
    /\ sc_calls = 0
    /\ archive_tasks = <<>>

\* Nikola.__init__, lines 169-173.
InitScanVars ==
    /\ src_files \in ScanCorpora
    /\ sc_translations \in {translations_dict(l) : l \in LangLists}
    /\ global_data = EmptyDict
    /\ posts_per_year = EmptyDict
    /\ posts_per_tag = EmptyDict
    /\ sc_timeline = <<>>
    /\ sc_scanned = FALSE
    /\ sc_raised = "none"
    /\ sc_calls = 0
    /\ archive_tasks = <<>>

(***************************************************************************)
(* Properties of the scan.                                                 *)
(***************************************************************************)
\* The position of a post among the Post calls of the scan.
ScanPosition(name) ==
    LET order == scan_order(src_files)
    IN  CHOOSE i \in 1 .. Len(order) : order[i].file.name = name

\* The source files whose date line is not a date.
BadDateFiles == {f \in src_files : strip(f.meta.lines[3]) \notin GoodDates}

\* C11: once a scan has completed, no step (a further call of scan_posts
\* among them) changes global_data, posts_per_year, posts_per_tag or the
\* timeline.
C11_ScanIdempotent ==
    [][sc_scanned => UNCHANGED <<global_data, posts_per_year, posts_per_tag,
                                 sc_timeline>>]_vars

\* Two calls of scan_posts were made over a site with posts and tags.
C11_Witness ==
    /\ sc_scanned
    /\ sc_calls = 2
    /\ Len(sc_timeline) >= 2
    /\ Used(posts_per_tag) >= 2

C13_TiesInScanOrder ==
    sc_scanned =>
        \A i, j \in 1 .. Len(sc_timeline) :
            (i < j /\ sc_timeline[i].date = sc_timeline[j].date)
                => ScanPosition(sc_timeline[i].post_name)
                     < ScanPosition(sc_timeline[j].post_name)

\* The number a string of digits writes.
RECURSIVE int(_)
int(s) ==
    IF s = <<>> THEN 0
    ELSE 10 * int(SubSeq(s, 1, Len(s) - 1))
         + ((CHOOSE i \in 1 .. Len(Digits) : Digits[i] = s[Len(s)]) - 1)

\* The tasks of the archive with the "all your years" list of a language.
AllYearsTasks(lang) ==
    {k \in 1 .. Len(archive_tasks) :
        /\ "basename" \in DOMAIN archive_tasks[k]
        /\ archive_tasks[k].actions[1].context.lang = PyStr(<<lang>>)}

\* The tasks of the archive that render the page of a year in a language.
YearTasks(year, lang) ==
    {k \in 1 .. Len(archive_tasks) :
        /\ "basename" \notin DOMAIN archive_tasks[k]
        /\ archive_tasks[k].targets
              = <<os_path_join(<<OUTPUT_FOLDER, path("archive", year, lang, FALSE)>>)>>}

\* C14: after a scan posts_per_year has one key for each year in which a
\* post is dated, the year as a string, and the key maps to the names of
\* exactly the posts of that year; the "all your years" task of each
\* language lists the years in descending order, each with the link of
\* the page of that year.
C14_PostsPerYear ==
    sc_scanned =>
        /\ {x.k : x \in Mapping(posts_per_year)}
              = {Intern(IntStr(datetime_year(p.v.date))) : p \in Mapping(global_data)}
        /\ \A x \in Mapping(posts_per_year) :
              /\ Range(x.v) = {p.k : p \in {q \in Mapping(global_data) :
                                    datetime_year(q.v.date) = int(Chars(x.k))}}
              /\ Len(x.v) = Cardinality(Range(x.v))
        /\ archive_tasks # <<>> =>
              \A lang \in Range(dict_keys(sc_translations)) :
                 /\ Cardinality(AllYearsTasks(lang)) = 1
                 /\ \A k \in AllYearsTasks(lang) :
                       LET items == archive_tasks[k].actions[1].context.items
                       IN  /\ {int(items[i][1]) : i \in 1 .. Len(items)}
                                = {datetime_year(p.v.date) : p \in Mapping(global_data)}
                           /\ \A i, j \in 1 .. Len(items) :
                                 i < j => int(items[i][1]) > int(items[j][1])
                           /\ \A i \in 1 .. Len(items) :
                                 /\ YearTasks(items[i][1], lang) # {}
                                 /\ items[i][2] = <<"/">> \o path("archive", items[i][1],
                                                                  lang, FALSE)

\* C17: when the date line of a source file does not parse, a call of
\* scan_posts raises ValueError: the scan is not marked as completed, no
\* timeline is left, and the file is not in global_data.
C17_BadDateFails ==
    (BadDateFiles # {} /\ sc_calls > 0) =>
        /\ sc_raised = "ValueError"
        /\ ~sc_scanned
        /\ sc_timeline = <<>>
        /\ archive_tasks = <<>>
        /\ \A f \in BadDateFiles : ~HasKey(global_data, f.name)

\* The scan raised over the second post, after the first was stored.
C17_Witness ==
    /\ sc_raised = "ValueError"
    /\ sc_calls = 1
    /\ HasKey(global_data, "posts/p1")
    /\ ~HasKey(global_data, "posts/p2")
    /\ \E f \in BadDateFiles : f.name = "posts/p2"

(***************************************************************************)
(* Nikola.__init__ (nikola.py 166-212) and the generator Nikola.gen_tasks  *)
(* (nikola.py 309-382): which keys of self.config each statement reads,    *)
(* and what it yields.  The configuration is the set of the keys conf.py   *)
(* defines; self.config[key] of a key that is not there raises KeyError.   *)
(***************************************************************************)
\* Lines 177-186: the keys the default configuration holds.
DefaultConfigKeys == {"OUTPUT_FOLDER", "FILES_FOLDERS", "ADD_THIS_BUTTONS", "post_compilers"}

\* The keys that are read with self.config[key] and have no default.
RequiredKeys ==
    {"GLOBAL_CONTEXT", "THEME", "TEMPLATE_ENGINE", "TRANSLATIONS", "post_pages",
     "DEPLOY_COMMANDS", "BLOG_URL", "DEFAULT_LANG", "BLOG_TITLE", "BLOG_DESCRIPTION",
     "THUMBNAIL_SIZE", "REDIRECTIONS"}

\* Lines 189-206: the keys __init__ reads, in order.
InitReads ==
    <<"post_compilers", "GLOBAL_CONTEXT", "THEME", "TEMPLATE_ENGINE", "TRANSLATIONS",
      "ADD_THIS_BUTTONS">>

\* The yield statements of gen_tasks: the line, what is yielded (a task
\* description, or the generator of the task descriptions of a category)
\* and the keys the statement reads before it yields, in order.
GenTasksYields ==
    << [line |-> 311, yields |-> "serve", reads |-> <<"OUTPUT_FOLDER">>],
       [line |-> 312, yields |-> "install_theme", reads |-> <<>>],
       [line |-> 313, yields |-> "new_post", reads |-> <<"post_pages">>],
       [line |-> 314, yields |-> "new_page", reads |-> <<"post_pages">>],
       [line |-> 315, yields |-> "copy_assets", reads |-> <<"OUTPUT_FOLDER">>],
       [line |-> 317, yields |-> "deploy", reads |-> <<"DEPLOY_COMMANDS">>],
       [line |-> 318, yields |-> "sitemap", reads |-> <<"BLOG_URL", "OUTPUT_FOLDER">>],
       [line |-> 321, yields |-> "render_pages", reads |-> <<"TRANSLATIONS", "post_pages">>],
       [line |-> 324, yields |-> "render_sources",
        reads |-> <<"TRANSLATIONS", "DEFAULT_LANG", "OUTPUT_FOLDER", "post_pages">>],
       [line |-> 329, yields |-> "render_posts", reads |-> <<"TRANSLATIONS", "DEFAULT_LANG">>],
       [line |-> 334, yields |-> "render_indexes",
        reads |-> <<"TRANSLATIONS", "OUTPUT_FOLDER">>],
       [line |-> 337, yields |-> "render_archive",
        reads |-> <<"TRANSLATIONS", "OUTPUT_FOLDER">>],
       [line |-> 341, yields |-> "render_tags",
        reads |-> <<"TRANSLATIONS", "BLOG_TITLE", "BLOG_URL", "BLOG_DESCRIPTION",
                    "OUTPUT_FOLDER">>],
       [line |-> 348, yields |-> "render_rss",
        reads |-> <<"TRANSLATIONS", "BLOG_TITLE", "BLOG_URL", "BLOG_DESCRIPTION",
                    "OUTPUT_FOLDER">>],
       [line |-> 354, yields |-> "render_galleries",
        reads |-> <<"THUMBNAIL_SIZE", "DEFAULT_LANG", "OUTPUT_FOLDER">>],
       [line |-> 358, yields |-> "redirect", reads |-> <<"REDIRECTIONS", "OUTPUT_FOLDER">>],
       [line |-> 361, yields |-> "copy_files",
        reads |-> <<"OUTPUT_FOLDER", "FILES_FOLDERS">>],
       [line |-> 364, yields |-> "all", reads |-> <<>>] >>

\* Whether every self.config[key] of reads finds its key.
reads_ok(config, reads) == \A i \in 1 .. Len(reads) : reads[i] \in config

\* Nikola(**config): self.config.update(config), then the reads of lines
\* 189-206.
NikolaConstruct ==
    /\ gt_pc = 0
    /\ gt_raised = "none"
    /\ IF reads_ok(gt_config \cup DefaultConfigKeys, InitReads)
       THEN gt_pc' = 1 /\ gt_raised' = "none"
       ELSE gt_pc' = 0 /\ gt_raised' = "KeyError"
    /\ UNCHANGED <<gt_config, gt_emitted>>
    /\ UNCHANGED notGen

\* next() on the generator: it runs to its next yield statement, whose
\* arguments are evaluated before it yields.
GenTasksNext ==
    /\ gt_pc \in 1 .. Len(GenTasksYields)
    /\ gt_raised = "none"
    /\ IF reads_ok(gt_config \cup DefaultConfigKeys, GenTasksYields[gt_pc].reads)
       THEN /\ gt_emitted' = Append(gt_emitted, GenTasksYields[gt_pc].yields)
            /\ gt_pc' = gt_pc + 1
            /\ gt_raised' = "none"
       ELSE /\ gt_emitted' = gt_emitted
            /\ gt_pc' = gt_pc
            /\ gt_raised' = "KeyError"
    /\ UNCHANGED gt_config
    /\ UNCHANGED notGen

StepGenTasks ==
    \/ NikolaConstruct
    \/ GenTasksNext

\* conf.py with every required key, or without one or two of them.
MaxMissing == 2

InitGenVars ==
    /\ gt_config \in {RequiredKeys \ M : M \in {S \in SUBSET RequiredKeys :
                                                   Cardinality(S) <= MaxMissing}}
    /\ gt_emitted = <<>>
    /\ gt_raised = "none"
    /\ gt_pc = 0

IdleGenVars ==
    /\ gt_config = {}
    /\ gt_emitted = <<>>
    /\ gt_raised = "none"
    /\ gt_pc = 0

\* C18: when a required key is missing from the configuration, no task
\* description is ever yielded, and the derivation does not complete.
C18_MissingKeyBeforeAnyTask ==
    (RequiredKeys \ gt_config # {}) => (gt_emitted = <<>> /\ gt_pc <= Len(GenTasksYields))

(***************************************************************************)
(* utils.get_compile_html and utils.CompileHtmlGetter (utils.py 107-163).  *)
(* A source name is <<root, extension>>, or <<root>> when it has none.     *)
(***************************************************************************)
Extensions == {".txt", ".rst", ".md"}

\* os.path.splitext(source_name)[1]
splitext_ext(source_name) ==
    IF source_name[Len(source_name)] \in Extensions
    THEN source_name[Len(source_name)] ELSE ""

\* get_compile_html(input_format): compile_html is bound for "rest" and
\* "markdown" only.
get_compile_html(input_format) ==
    CASE input_format = "rest" -> [compile_html |-> "rest.compile_html"]
      [] input_format = "markdown" -> [compile_html |-> "md.compile_html"]
      [] OTHER -> [raised |-> "UnboundLocalError"]

\* Lines 143-145: the backends whose extensions hold ext, in the order of
\* post_compilers.items().
langs_of(compilers, ext) ==
    LET items == PyDict_Items(compilers)
        found == SelectSeq(items, LAMBDA x : ext \in Range(x.v))
    IN  [i \in 1 .. Len(found) |-> found[i].k]

\* A choice that takes the first backend when several list the extension.
choose_first_lang(langs) ==
    IF langs = <<>> THEN [exit |-> "no compiler"] ELSE [lang |-> langs[1]]

\* Lines 146-158: the backend, or exit().
choose_lang(langs) ==
    IF Len(langs) # 1
    THEN IF Cardinality(Range(langs)) > 1 THEN [exit |-> "ambiguous"]
         ELSE IF Len(langs) > 1 THEN [lang |-> langs[1]]
         ELSE [exit |-> "no compiler"]
    ELSE [lang |-> langs[1]]

\* CompileHtmlGetter.__call__: what it returns or how it ends, and
\* self.inverse_post_compilers after it.
CompileHtmlGetter_call(compilers, inverse, source_name) ==
    LET ext == splitext_ext(source_name)
    IN  IF ext \in DOMAIN inverse
        THEN [result |-> [compile_html |-> inverse[ext]], inverse |-> inverse]
        ELSE LET chosen == choose_lang(langs_of(compilers, ext))
             IN  IF "exit" \in DOMAIN chosen
                 THEN [result |-> chosen, inverse |-> inverse]
                 ELSE LET got == get_compile_html(chosen.lang)
                      IN  IF "raised" \in DOMAIN got
                          THEN [result |-> got, inverse |-> inverse]
                          ELSE [result |-> got,
                                inverse |-> [e \in DOMAIN inverse \cup {ext} |->
                                               IF e = ext THEN got.compile_html
                                               ELSE inverse[e]]]

MaxCompilerCalls == 3

SourceNames ==
    {<<"posts/p1", ".txt">>, <<"posts/p2", ".md">>, <<"stories/s1", ".rst">>, <<"README">>}

\* What a call leaves: the cache, the log of the calls, whether the
\* process has ended.
CompileHtmlGetterLeaves(source_name, r) ==
    /\ inverse_post_compilers' = r.inverse
    /\ ch_returned' = Append(ch_returned, [source_name |-> source_name,
                                          result |-> r.result])
    /\ ch_exited' = ("compile_html" \notin DOMAIN r.result)

\* self.get_compile_html(base_path), as scan_posts calls it (nikola.py 394).
CompileHtmlGetterCall ==
    /\ ~ch_exited
    /\ Len(ch_returned) < MaxCompilerCalls
    /\ \E source_name \in SourceNames :
          CompileHtmlGetterLeaves(source_name,
              CompileHtmlGetter_call(post_compilers, inverse_post_compilers,
                                     source_name))
    /\ UNCHANGED post_compilers
    /\ UNCHANGED notComp

\* The post_compilers of conf.py: the extensions of each backend, the
\* backends in either order, or one backend only.
RestExtensions == {<<>>, <<".txt">>, <<".txt", ".rst">>}

MarkdownExtensions == {<<>>, <<".md">>, <<".md", ".txt">>, <<".rst">>}

PostCompilers ==
    {kwargs(<< <<"rest", r>>, <<"markdown", md>> >>) :
        r \in RestExtensions, md \in MarkdownExtensions}
    \cup {kwargs(<< <<"markdown", md>>, <<"rest", r>> >>) :
            r \in RestExtensions, md \in MarkdownExtensions}
    \cup {kwargs(<< <<"rest", r>> >>) : r \in RestExtensions}

\* CompileHtmlGetter.__init__ (lines 122-128).
InitCompVars ==
    /\ post_compilers \in PostCompilers
    /\ inverse_post_compilers = [e \in {} |-> ""]
    /\ ch_returned = <<>>
    /\ ch_exited = FALSE

IdleCompVars ==
    /\ post_compilers = EmptyDict
    /\ inverse_post_compilers = [e \in {} |-> ""]
    /\ ch_returned = <<>>
    /\ ch_exited = FALSE

\* The backends of post_compilers that list ext.
BackendsOf(ext) == {x.k : x \in {y \in Mapping(post_compilers) : ext \in Range(y.v)}}

CompilerOf(backend) == IF backend = "rest" THEN "rest.compile_html" ELSE "md.compile_html"

\* C19: a call for an extension that exactly one backend lists returns the
\* compiler of that backend, on the first call and on every later one; a
\* call for an extension that several backends or none list ends the
\* process, returns nothing, and nothing is cached for that extension.
C19_CompilerByExtension ==
    /\ \A i \in 1 .. Len(ch_returned) :
          LET backends == BackendsOf(splitext_ext(ch_returned[i].source_name))
          IN  IF Cardinality(backends) = 1
              THEN \E b \in backends :
                      ch_returned[i].result = [compile_html |-> CompilerOf(b)]
              ELSE /\ "exit" \in DOMAIN ch_returned[i].result
                   /\ i = Len(ch_returned)
                   /\ ch_exited
    /\ \A ext \in DOMAIN inverse_post_compilers :
          /\ Cardinality(BackendsOf(ext)) = 1
          /\ \E b \in BackendsOf(ext) : inverse_post_compilers[ext] = CompilerOf(b)

\* Two calls for one extension returned the same compiler, and a third,
\* for an extension two backends list, ended the process.
C19_Witness ==
    /\ Len(ch_returned) = 3
    /\ splitext_ext(ch_returned[1].source_name) = splitext_ext(ch_returned[2].source_name)
    /\ "compile_html" \in DOMAIN ch_returned[1].result
    /\ ch_returned[1].result = ch_returned[2].result
    /\ ch_returned[3].result = [exit |-> "ambiguous"]
    /\ ch_exited
    /\ DOMAIN inverse_post_compilers = {splitext_ext(ch_returned[1].source_name)}

(***************************************************************************)
(* The three generators of copies: Nikola.gen_task_redirect (nikola.py     *)
(* 906-941), gen_task_copy_files (943-967) and gen_task_copy_assets        *)
(* (969-993).                                                              *)
(***************************************************************************)
\* kw of gen_task_redirect (gen_tasks, lines 358-360).
redirect_kw(redirs) ==
    kwargs(<< <<"redirections",
                PickleSeq([i \in 1 .. Len(redirs) |->
                              PickleSeq(<<PickleStr(redirs[i][1]),
                                          PickleStr(redirs[i][2])>>)])>>,
              <<"output_folder", PickleStr(OUTPUT_FOLDER)>> >>)

\* gen_task_redirect(redirections=..., output_folder=...)
gen_task_redirect(redirs) ==
    IF redirs = <<>>                                      \* if not kw['redirections']
    THEN <<[basename |-> "redirect", name |-> <<"None">>, uptodate |-> <<TRUE>>,
            actions |-> <<>>]>>
    ELSE [i \in 1 .. Len(redirs) |->
            LET src_path == os_path_join(<<OUTPUT_FOLDER, redirs[i][1]>>)
            IN  [basename |-> "redirect",
                 name |-> src_path,
                 targets |-> <<src_path>>,
                 actions |-> <<[fn |-> "create_redirect", src |-> src_path,
                                dst |-> redirs[i][2]]>>,
                 clean |-> TRUE,
                 uptodate |-> <<config_digest(PyDict(redirect_kw(redirs)))>>]]

\* self.THEMES: the theme of the site and its parent.
THEMES == <<"site", "default">>

\* os.path.join(utils.get_theme_path(theme_name), 'assets')
theme_assets_path(theme_name) ==
    IF theme_name = "site" THEN "themes/site/assets" ELSE "themes/default/assets"

\* kw of gen_task_copy_assets (gen_tasks, lines 315-316).
copy_assets_kw(themes) ==
    kwargs(<< <<"themes", PickleSeq([i \in 1 .. Len(themes) |->
                                       PickleStr(<<themes[i]>>)])>>,
              <<"output_folder", PickleStr(OUTPUT_FOLDER)>> >>)

\* A derivation without the check of task['name']: every task of every
\* theme of the chain is yielded.
gen_task_copy_assets_no_check(themes, files) ==
    LET dst   == os_path_join(<<OUTPUT_FOLDER, <<"assets">>>>)
        every == Concat([t \in 1 .. Len(themes) |->
                           copy_tree(theme_assets_path(themes[t]), dst, files)])
    IN  [n \in 1 .. Len(every) |->
            [uptodate |-> <<config_digest(PyDict(copy_assets_kw(themes)))>>,
             basename |-> "copy_assets"] @@ every[n]]

\* gen_task_copy_assets(themes=..., output_folder=...): the tasks of the
\* trees of the chain in turn, less those whose name an earlier task has.
gen_task_copy_assets(themes, files) ==
    LET dst   == os_path_join(<<OUTPUT_FOLDER, <<"assets">>>>)
        every == Concat([t \in 1 .. Len(themes) |->
                           copy_tree(theme_assets_path(themes[t]), dst, files)])
        firsts == SelectSeq([i \in 1 .. Len(every) |-> i],
                            LAMBDA i : \A j \in 1 .. i - 1 : every[j].name # every[i].name)
        uptodate == <<config_digest(PyDict(copy_assets_kw(themes)))>>
    IN  [n \in 1 .. Len(firsts) |->
            [uptodate |-> uptodate, basename |-> "copy_assets"] @@ every[firsts[n]]]

\* The redirections of conf.py: (src, dst) pairs.
Redirections ==
    {<<>>,
     << <<<<"old.html">>, <<"/new.html">>>> >>,
     << <<<<"old.html">>, <<"/new.html">>>>, <<<<"a/index.html">>, <<"/b.html">>>> >>}

\* The files under the FILES_FOLDERS trees and under the assets folders
\* of the themes.
CopyFiles ==
    {[folder |-> f, dir |-> TreeListing[i].dir, name |-> TreeListing[i].name] :
        f \in FolderNames, i \in {1, 3}}

AssetFiles ==
    {[folder |-> theme_assets_path(THEMES[t]), dir |-> TreeListing[i].dir,
      name |-> TreeListing[i].name] : t \in 1 .. Len(THEMES), i \in {1, 4}}

Categories == {"redirect", "copy_files", "copy_assets"}

\* One of the three generators is run to its end (gen_tasks, lines 315,
\* 358, 361).
GenTaskCopyLike ==
    /\ \E category \in Categories \ sen_pc :
          /\ sen_pc' = sen_pc \cup {category}
          /\ sen_tasks' = [sen_tasks EXCEPT ![category] =
                CASE category = "redirect" -> gen_task_redirect(redirections)
                  [] category = "copy_files" -> gen_task_copy_files(sen_folders, sen_files)
                  [] OTHER -> gen_task_copy_assets(THEMES, theme_assets)]
    /\ UNCHANGED <<redirections, sen_files, sen_folders, theme_assets>>
    /\ UNCHANGED notSen

InitSenVars ==
    /\ redirections \in Redirections
    /\ sen_files \in SUBSET CopyFiles
    /\ sen_folders \in FolderLists
    /\ theme_assets \in SUBSET AssetFiles
    /\ sen_tasks = [category \in Categories |-> <<>>]
    /\ sen_pc = {}

IdleSenVars ==
    /\ redirections = <<>>
    /\ sen_files = {}
    /\ sen_folders = <<>>
    /\ theme_assets = {}
    /\ sen_tasks = [category \in Categories |-> <<>>]
    /\ sen_pc = {}

\* The output paths the inputs of a category are copied to.
CopyInputs(category) ==
    CASE category = "redirect" ->
            {os_path_join(<<OUTPUT_FOLDER, redirections[i][1]>>) :
                i \in 1 .. Len(redirections)}
      [] category = "copy_files" ->
            {os_path_join(<<OUTPUT_FOLDER>> \o Strs(f.dir) \o <<<<f.name>>>>) :
                f \in {g \in sen_files : g.folder \in Range(sen_folders)
                                         /\ ".svn" \notin Range(g.dir)}}
      [] OTHER ->
            {os_path_join(<<OUTPUT_FOLDER, <<"assets">>>> \o Strs(f.dir) \o <<<<f.name>>>>) :
                f \in {g \in theme_assets : ".svn" \notin Range(g.dir)}}

\* C20: each of the three generators, once run, has yielded a task of its
\* category: when it has no input, one task with no action; otherwise the
\* copy tasks, each with its destination as its only target, one or more
\* for every destination.
C20_SentinelWhenEmpty ==
    \A category \in sen_pc :
        LET tasks == sen_tasks[category]
        IN  /\ tasks # <<>>
            /\ \A i \in 1 .. Len(tasks) : tasks[i].basename = category
            /\ IF CopyInputs(category) = {}
               THEN Len(tasks) = 1 /\ Len(tasks[1].actions) = 0
               ELSE /\ {tasks[i].targets : i \in 1 .. Len(tasks)}
                          = {<<dst>> : dst \in CopyInputs(category)}
                    /\ \A i \in 1 .. Len(tasks) : Len(tasks[i].actions) = 1

(***************************************************************************)
(* The index tasks of a site without feed-eligible posts.                  *)
(***************************************************************************)
\* C21: when no source file is feed-eligible, the derivation of the index
\* tasks yields exactly one task; it is of category render_indexes, has an
\* empty action list and renders no page (no name, no targets), whatever
\* the languages of TRANSLATIONS and the stories of the site.
C21_ZeroPostsPlaceholder ==
    (builds # <<>> /\ NumFeedPosts = 0) =>
        /\ Len(index_tasks) = 1
        /\ index_tasks[1].basename = "render_indexes"
        /\ index_tasks[1].actions = <<>>
        /\ RenderingTasks(index_tasks) = {}
        /\ "targets" \notin DOMAIN index_tasks[1]

\* A site of two languages with stories and no post has been derived.
C21_Witness ==
    /\ builds # <<>>
    /\ NumFeedPosts = 0
    /\ post_files # {}
    /\ ConfiguredLangs = {"en", "es"}
    /\ Len(index_tasks) = 1

(***************************************************************************)
(* config_changed.__call__ on a string and on an object that is neither a  *)
(* string nor a dict.                                                      *)
(***************************************************************************)
\* C23: a check of a string context registers a save action whose digest
\* is the string itself and compares the recorded digest with the string;
\* a check of a context that is neither a string nor a dict raises and
\* leaves the task's actions and the recorded digest as they were, and the
\* executor records nothing after the error.
C23_StrVerbatimOtherRaises ==
    [][/\ (cc_pc = "idle" /\ cc_pc' = "checked" /\ cc_config.t = "str") =>
              /\ task_actions' = <<[save |-> cc_config]>> \o task_actions
              /\ cc_result' = (IF values = cc_config THEN "True" ELSE "False")
              /\ UNCHANGED values
       /\ (cc_pc = "idle" /\ cc_pc' = "checked" /\ cc_config.t \notin {"str", "dict"}) =>
              /\ cc_result' = "raised"
              /\ UNCHANGED <<task_actions, values>>
       /\ (cc_pc = "checked" /\ cc_result = "raised") =>
              UNCHANGED <<task_actions, values>>
       /\ (cc_pc = "checked" /\ cc_pc' = "idle" /\ cc_config.t = "str"
              /\ values' # values) => values' = cc_config]_vars

\* A string was recorded as the digest of a successful run, and the check
\* of another object has raised since.
C23_Witness ==
    /\ cc_pc = "checked"
    /\ cc_config = PyOther
    /\ cc_result = "raised"
    /\ values # None
    /\ values.t = "str"
    /\ task_actions = <<>>

(***************************************************************************)
(* Nikola.gen_task_render_tags (nikola.py 656-729) and the feed that       *)
(* utils.generic_rss_renderer (utils.py 181-206) writes.                   *)
(***************************************************************************)
\* post.tags, from the third line of the .meta file of each source file of
\* the sites here: every post carries the tag a, every other post the tag
\* b as well; one story carries a, one b, one no tag.
file_tags(file) ==
    IF file.wildcard = "posts/*.txt"
    THEN (IF (file.date \div 2) % 2 = 1 THEN << <<"a">>, <<"b">> >> ELSE << <<"a">> >>)
    ELSE CASE file.date = 1 -> << <<"a">> >>
           [] file.date = 41 -> << <<"b">> >>
           [] OTHER -> <<>>

\* Lines 397-398 of scan_posts for the posts lo .. hi of the scan:
\* self.posts_per_tag[tag].append(post.post_name)
RECURSIVE tagged_posts_loop(_, _, _, _)
tagged_posts_loop(acc, seq, lo, hi) ==
    IF lo > hi THEN acc
    ELSE IF lo = hi
         THEN posts_per_tag_loop(acc, seq[lo].tags, 1, Len(seq[lo].tags), seq[lo].post_name)
    ELSE LET half == tagged_posts_loop(acc, seq, lo, (lo + hi) \div 2)
         IN  <<half, tagged_posts_loop(half, seq, ((lo + hi) \div 2) + 1, hi)>>[2]

\* scan_posts: the Post objects in the order they are made, each with its
\* tags, and the posts_per_tag they leave.
tagged_posts(files) ==
    Concat([p \in 1 .. Len(post_pages) |->
              LET matched == glob_wildcard(files, post_pages[p].wildcard)
              IN  [i \in 1 .. Len(matched) |->
                      [tags |-> file_tags(matched[i])]
                      @@ Post(matched[i], post_pages[p].destination,
                              post_pages[p].use_in_feeds)]])

\* Post.permalink(lang) of a post whose page name is that of the default
\* language.
post_permalink(post, lang) ==
    <<"/">> \o JoinSlash(FilterNone(<<TRANSLATIONS(lang), post.folder,
                                      post.default_pagename \o <<".html">>>>))

\* for post in timeline[:10]
rss_items(tl) == SubSeq(tl, 1, Min(10, Len(tl)))

\* utils.generic_rss_renderer(lang, title, link, description, timeline,
\* output_path): the items of the feed it writes to output_path.
generic_rss_renderer(lang, title, tl) ==
    LET items == rss_items(tl)
    IN  [title |-> title,
         items |-> [i \in 1 .. Len(items) |->
                      [title |-> items[i].default_title,
                       link |-> post_permalink(items[i], lang),
                       guid |-> post_permalink(items[i], lang),
                       pubDate |-> items[i].date]]]

\* kw of the call in gen_tasks (lines 340-346).
render_tags_kw(translations) ==
    kwargs(<< <<"translations", cPickle_dumps(translations)>>,
              <<"messages", PickleStr(<<"MESSAGES">>)>>,
              <<"blog_title", PickleStr(BLOG_TITLE)>>,
              <<"blog_url", PickleStr(<<BLOG_URL>>)>>,
              <<"blog_description", PickleStr(<<"A blog">>)>>,
              <<"output_folder", PickleStr(OUTPUT_FOLDER)>> >>)

\* Lines 673-675 and 700-703: the posts of the names, sorted by date and
\* reversed.
tag_post_list(names, posts, data) ==
    Reverse(sort_by_date(List([i \in 1 .. Len(names) |->
                                  posts[PyDict_GetItem(data, names[i])[1]]])))

\* Lines 669-713, the body of the loops: the page task and the feed task
\* of one (tag, language) pair join the tasks yielded so far.  self is
\* [posts, global_data, posts_per_tag], pair is [tag, names, lang].
render_tag_pair(yielded, pair, self, translations) ==
    LET tag       == Chars(pair.tag)
        post_list == tag_post_list(pair.names, self.posts, self.global_data)
        context   == [lang |-> PyStr(<<pair.lang>>),
                      title |-> PyStr(<<"Posts about ">> \o tag \o <<":">>),
                      items |-> [i \in 1 .. Len(post_list) |->
                                   post_permalink(post_list[i], pair.lang)],
                      permalink |-> PyStr(link("tag", tag, pair.lang))]
        r         == generic_post_list_renderer(
                         pair.lang, post_list,
                         os_path_join(<<OUTPUT_FOLDER, path("tag", tag, pair.lang, FALSE)>>),
                         "list.tmpl", context, BLOG_TITLE, yielded.cache)
        page      == [uptodate |-> render_indexes_uptodate(r.task,
                                                           render_tags_kw(translations)),
                      basename |-> "render_tags"] @@ r.task
        output_name == os_path_join(<<OUTPUT_FOLDER, path("tag_rss", tag, pair.lang, FALSE)>>)
        feed_list == SelectSeq(post_list, LAMBDA x : x.use_in_feeds)
        feed      == [name |-> output_name,
                      file_dep |-> Concat([i \in 1 .. Len(feed_list) |->
                                             post_deps(feed_list[i], pair.lang)]),
                      targets |-> <<output_name>>,
                      actions |-> <<[fn |-> "generic_rss_renderer",
                                     lang |-> pair.lang,
                                     title |-> BLOG_TITLE \o <<" (">> \o tag \o <<")">>,
                                     timeline |-> feed_list,
                                     output_path |-> output_name]>>,
                      clean |-> TRUE,
                      uptodate |-> <<config_digest(PyDict(render_tags_kw(translations)))>>]
    IN  <<post_list, r, feed_list,
          [tasks |-> yielded.tasks \o <<page, feed>>, cache |-> r.cache]>>[4]

RECURSIVE render_tags_loop(_, _, _, _, _, _)
render_tags_loop(acc, seq, lo, hi, self, translations) ==
    IF lo > hi THEN acc
    ELSE IF lo = hi THEN render_tag_pair(acc, seq[lo], self, translations)
    ELSE LET half == render_tags_loop(acc, seq, lo, (lo + hi) \div 2, self, translations)
         IN  <<half, render_tags_loop(half, seq, ((lo + hi) \div 2) + 1, hi, self,
                                      translations)>>[2]

\* Lines 717-729: the "all your tags" page of one language.
render_tag_index(yielded, lang, tags, translations) ==
    LET context == [title |-> PyStr(<<"Tags">>),
                    items |-> [i \in 1 .. Len(tags) |-> link("tag", Chars(tags[i]), lang)],
                    permalink |-> PyStr(link("tag_index", <<>>, lang))]
        r == generic_post_list_renderer(
                 lang, <<>>,
                 os_path_join(<<OUTPUT_FOLDER, path("tag_index", <<>>, lang, FALSE)>>),
                 "list.tmpl", context, BLOG_TITLE, yielded.cache)
        task == [uptodate |-> render_indexes_uptodate(r.task, render_tags_kw(translations))]
                @@ r.task
    IN  <<r, [tasks |-> Append(yielded.tasks, task), cache |-> r.cache]>>[2]

RECURSIVE render_tag_index_loop(_, _, _, _, _, _)
render_tag_index_loop(acc, seq, lo, hi, tags, translations) ==
    IF lo > hi THEN acc
    ELSE IF lo = hi THEN render_tag_index(acc, seq[lo], tags, translations)
    ELSE LET half == render_tag_index_loop(acc, seq, lo, (lo + hi) \div 2, tags,
                                           translations)
         IN  <<half, render_tag_index_loop(half, seq, ((lo + hi) \div 2) + 1, hi, tags,
                                           translations)>>[2]

\* tags.sort() on the keys a and b.
sort_tags(tags) == SelectSeq(<<"a", "b">>, LAMBDA t : t \in Range(tags))

\* gen_task_render_tags(**kw), self.posts_per_tag and self.global_data
\* being those scan_posts left.
gen_task_render_tags(files, translations) ==
    LET posts == tagged_posts(files)
        self  == [posts |-> posts,
                  global_data |-> global_data_of(posts),
                  posts_per_tag |-> tagged_posts_loop(EmptyDict, posts, 1, Len(posts))]
        items == PyDict_Items(self.posts_per_tag)
        langs == dict_keys(translations)
        pairs == Concat([t \in 1 .. Len(items) |->
                           [l \in 1 .. Len(langs) |->
                               [tag |-> items[t].k, names |-> items[t].v,
                                lang |-> langs[l]]]])
        paged == render_tags_loop([tasks |-> <<>>, cache |-> EmptyCache], pairs, 1,
                                  Len(pairs), self, translations)
    IN  render_tag_index_loop(paged, langs, 1, Len(langs),
                              sort_tags(dict_keys(self.posts_per_tag)), translations).tasks

(***************************************************************************)
(* The tag tasks of a site are derived, and the executor runs the feed     *)
(* tasks.                                                                  *)
(***************************************************************************)
MaxTagged == 12

TagCorpora ==
    {{PostFile(k) : k \in 1 .. n} \cup {StoryFile(d) : d \in S} :
        n \in 0 .. MaxTagged, S \in SUBSET StoryDates}

GenTaskRenderTags ==
    /\ ~tg_derived
    /\ tg_derived' = TRUE
    /\ tg_tasks' = gen_task_render_tags(tg_files, tg_translations)
    /\ UNCHANGED <<tg_files, tg_translations, tg_feeds>>
    /\ UNCHANGED notTag

\* The executor runs the action of a feed task.
ExecutorRunFeedTask ==
    /\ \E k \in 1 .. Len(tg_tasks) :
          LET action == tg_tasks[k].actions[1]
          IN  /\ action.fn = "generic_rss_renderer"
              /\ action.output_path \notin DOMAIN tg_feeds
              /\ tg_feeds' = tg_feeds
                             @@ (action.output_path :>
                                   generic_rss_renderer(action.lang, action.title,
                                                        action.timeline))
    /\ UNCHANGED <<tg_files, tg_translations, tg_tasks, tg_derived>>
    /\ UNCHANGED notTag

StepTags ==
    \/ GenTaskRenderTags
    \/ ExecutorRunFeedTask

InitTagVars ==
    /\ tg_files \in TagCorpora
    /\ tg_translations \in {translations_dict(l) : l \in LangLists}
    /\ tg_tasks = <<>>
    /\ tg_derived = FALSE
    /\ tg_feeds = [p \in {} |-> <<>>]

IdleTagVars ==
    /\ tg_files = {}
    /\ tg_translations = EmptyDict
    /\ tg_tasks = <<>>
    /\ tg_derived = FALSE
    /\ tg_feeds = [p \in {} |-> <<>>]

\* The feed-eligible posts of the site that carry the tag.
FeedPostsWithTag(tag) ==
    {f \in tg_files : f.wildcard = "posts/*.txt" /\ tag \in Range(file_tags(f))}

TagFeedPath(tag, lang) == os_path_join(<<OUTPUT_FOLDER, path("tag_rss", tag, lang, FALSE)>>)

\* C24: the feed written for a (tag, language) has one item for each
\* feed-eligible post that carries the tag and no other item, newest first.
C24_TagFeedFull ==
    \A tag \in {<<"a">>, <<"b">>}, lang \in Range(dict_keys(tg_translations)) :
        TagFeedPath(tag, lang) \in DOMAIN tg_feeds =>
            LET items == tg_feeds[TagFeedPath(tag, lang)].items
            IN  /\ {items[i].title : i \in 1 .. Len(items)}
                      = {f.title : f \in FeedPostsWithTag(tag)}
                /\ Len(items) = Cardinality(FeedPostsWithTag(tag))
                /\ \A i \in 1 .. Len(items) - 1 : items[i].pubDate >= items[i + 1].pubDate

(***************************************************************************)
(* The assets of a theme chain: which theme's file a destination gets.     *)
(***************************************************************************)
\* The destination of an asset file and the path it is read from.
AssetDst(f) == os_path_join(<<OUTPUT_FOLDER, <<"assets">>>> \o Strs(f.dir) \o <<<<f.name>>>>)

AssetSrc(f) == os_path_join(<<<<f.folder>>>> \o Strs(f.dir) \o <<<<f.name>>>>)

\* The position in the chain of the theme that holds the asset file.
ThemeIndex(f) == CHOOSE t \in 1 .. Len(THEMES) : theme_assets_path(THEMES[t]) = f.folder

\* The asset files that are copied: those not under a .svn directory.
CopiedAssets == {f \in theme_assets : ".svn" \notin Range(f.dir)}

\* C25: the copy_assets tasks have pairwise different destinations, there
\* is one for every destination an asset file of the chain has, and the
\* source of each is the file of the earliest theme of the chain that
\* holds a file for the destination.
C25_YoungestThemeWins ==
    "copy_assets" \in sen_pc =>
        LET tasks == sen_tasks["copy_assets"]
        IN  /\ \A i, j \in 1 .. Len(tasks) :
                  i # j => /\ tasks[i].name # tasks[j].name
                           /\ tasks[i].targets # tasks[j].targets
            /\ {tasks[i].name : i \in 1 .. Len(tasks)} = {AssetDst(f) : f \in CopiedAssets}
            /\ \A i \in 1 .. Len(tasks) :
                  /\ tasks[i].targets = <<tasks[i].name>>
                  /\ \E f \in CopiedAssets :
                        /\ AssetDst(f) = tasks[i].name
                        /\ tasks[i].file_dep = <<AssetSrc(f)>>
                        /\ tasks[i].actions[1].src = AssetSrc(f)
                        /\ \A g \in CopiedAssets :
                              AssetDst(g) = tasks[i].name => ThemeIndex(f) <= ThemeIndex(g)

\* Both themes of the chain hold img/favicon.ico, and the tasks have been
\* derived: the one task of the destination reads the file of the first.
C25_Witness ==
    /\ "copy_assets" \in sen_pc
    /\ \E f, g \in CopiedAssets :
          /\ f.folder # g.folder
          /\ AssetDst(f) = AssetDst(g)
          /\ f.dir = <<"img">>
    /\ \E i \in 1 .. Len(sen_tasks["copy_assets"]) :
          sen_tasks["copy_assets"][i].file_dep
              = <<os_path_join(<<<<"themes/site/assets">>, <<"img">>, <<"favicon.ico">>>>)>>

(***************************************************************************)
(* The file_dep of the post-list tasks and the list template_deps returns. *)
(***************************************************************************)
\* The posts of the timeline that the context of a task lists.
ListedPosts(task) ==
    {p \in Range(timeline) : p.post_name \in Range(Context(task).posts)}

\* C26: once a process has derived the index tasks, the file_dep of every
\* index page task holds the files of the recursive dependencies of
\* index.tmpl and of post.deps(lang) of the posts of its own list, and no
\* other file, whatever tasks were derived before it; and the list the
\* process holds for a template is the list of its recursive dependencies.
C26_FileDepOwnPostsOnly ==
    (builds # <<>> /\ scanned) =>
        /\ \A k \in RenderingTasks(index_tasks) :
              Range(index_tasks[k].file_dep)
                  = Range(template_deps("index.tmpl"))
                    \cup UNION {Range(post_deps(p, Context(index_tasks[k]).lang.s[1])) :
                                  p \in ListedPosts(index_tasks[k])}
        /\ \A name \in DOMAIN cache : cache[name] = template_deps(name)

(***************************************************************************)
(* Nikola.gen_task_render_posts (nikola.py 486-516), which compiles the    *)
(* fragments, and gen_task_render_pages (437-455) with                     *)
(* generic_page_renderer (406-435), which render the pages.                *)
(***************************************************************************)
\* copy(d): a new dict that the items of d enter in the order of its table.
dict_copy(tab) ==
    LET items == PyDict_Items(tab)
    IN  PyDict_SetItems(EmptyDict, List([i \in 1 .. Len(items) |-> <<items[i].k, items[i].v>>]))

\* Lines 498-499: deps_dict = copy(kw); deps_dict.pop('timeline')
render_posts_deps_dict(translations) ==
    PyDict_DelItem(dict_copy(kwargs(<< <<"translations", cPickle_dumps(translations)>>,
                                       <<"default_lang", PickleStr(<<DEFAULT_LANG>>)>>,
                                       <<"timeline", PickleNone>> >>)),
                   "timeline")

\* Lines 500-516: the task that compiles the fragment of a post in a
\* language.  os.path.exists(source_lang) is post.source_es.
render_posts_task(post, lang, translations) ==
    LET source == IF lang # DEFAULT_LANG /\ post.source_es
                  THEN post.source_path \o <<".", lang>>
                  ELSE post.source_path
        dest   == IF lang # DEFAULT_LANG THEN post.base_path \o <<".", lang>>
                  ELSE post.base_path
    IN  [basename |-> "render_posts",
         name |-> dest,
         file_dep |-> fragment_deps(post, lang),
         targets |-> <<dest>>,
         actions |-> <<[fn |-> "compile_html", source |-> source, dest |-> dest]>>,
         clean |-> TRUE,
         uptodate |-> <<config_digest(PyDict(render_posts_deps_dict(translations)))>>]

\* gen_task_render_posts(translations=..., default_lang=..., timeline=...)
gen_task_render_posts(tl, translations) ==
    LET langs == dict_keys(translations)
    IN  Concat([l \in 1 .. Len(langs) |->
                  [i \in 1 .. Len(tl) |-> render_posts_task(tl[i], langs[l], translations)]])

\* Lines 411-435: the task that renders the page of a post in a language.
page_task(post, lang, template_name, destination, translations) ==
    LET deps == post_deps(post, lang) \o template_deps(template_name)
        output_name == os_path_join(FilterNone(<<OUTPUT_FOLDER, TRANSLATIONS(lang),
                                                 destination,
                                                 post.default_pagename \o <<".html">>>>))
        deps_dict == kwargs(<< <<"lang", PickleStr(<<lang>>)>>,
                               <<"title", PickleStr(post.default_title)>>,
                               <<"permalink", PickleStr(post_permalink(post, lang))>>,
                               <<"OUTPUT_FOLDER", PickleStr(OUTPUT_FOLDER)>>,
                               <<"TRANSLATIONS", cPickle_dumps(translations)>> >>)
    IN  [basename |-> "render_pages",
         name |-> output_name,
         file_dep |-> deps,
         targets |-> <<output_name>>,
         actions |-> <<[fn |-> "render_template", template_name |-> template_name,
                        dst |-> output_name, post |-> post.post_name, lang |-> lang]>>,
         clean |-> TRUE,
         uptodate |-> <<config_digest(PyDict(deps_dict))>>]

\* generic_page_renderer(lang, wildcard, template_name, destination): a
\* task for each file glob.glob(wildcard) lists.
generic_page_renderer(lang, page, files, tl, translations) ==
    LET matched == glob_wildcard(files, page.wildcard)
    IN  [i \in 1 .. Len(matched) |->
            page_task(CHOOSE post \in Range(tl) : post.post_name = matched[i].name,
                      lang, page.template_name, page.destination, translations)]

\* gen_task_render_pages(translations=..., post_pages=...)
gen_task_render_pages(files, tl, translations) ==
    LET langs == dict_keys(translations)
    IN  Concat([l \in 1 .. Len(langs) |->
                  Concat([p \in 1 .. Len(post_pages) |->
                            generic_page_renderer(langs[l], post_pages[p], files, tl,
                                                  translations)])])

(***************************************************************************)
(* The two generators run, each once, and the executor runs a task when    *)
(* the tasks that make its file_dep have run.                              *)
(***************************************************************************)
MaxPagePosts == 2

PageCorpora ==
    {{PostFile(k) : k \in 1 .. n} \cup S :
        n \in 0 .. MaxPagePosts, S \in SUBSET {StoryFile(1)}}

GenTaskRenderPosts ==
    /\ "render_posts" \notin pg_pc
    /\ pg_pc' = pg_pc \cup {"render_posts"}
    /\ pg_tasks' = pg_tasks \o gen_task_render_posts(scan_timeline(pg_files), pg_translations)
    /\ UNCHANGED <<pg_files, pg_translations, pg_done>>
    /\ UNCHANGED notPage

GenTaskRenderPages ==
    /\ "render_pages" \notin pg_pc
    /\ pg_pc' = pg_pc \cup {"render_pages"}
    /\ pg_tasks' = pg_tasks \o gen_task_render_pages(pg_files, scan_timeline(pg_files),
                                                     pg_translations)
    /\ UNCHANGED <<pg_files, pg_translations, pg_done>>
    /\ UNCHANGED notPage

ExecutorRunPageTask ==
    /\ pg_pc = {"render_posts", "render_pages"}
    /\ \E i \in (1 .. Len(pg_tasks)) \ pg_done :
          /\ Producers(pg_tasks, i) \subseteq pg_done
          /\ pg_done' = pg_done \cup {i}
    /\ UNCHANGED <<pg_files, pg_translations, pg_tasks, pg_pc>>
    /\ UNCHANGED notPage

StepPages ==
    \/ GenTaskRenderPosts
    \/ GenTaskRenderPages
    \/ ExecutorRunPageTask

InitPageVars ==
    /\ pg_files \in PageCorpora
    /\ pg_translations \in {translations_dict(l) : l \in LangLists}
    /\ pg_tasks = <<>>
    /\ pg_pc = {}
    /\ pg_done = {}

IdlePageVars ==
    /\ pg_files = {}
    /\ pg_translations = EmptyDict
    /\ pg_tasks = <<>>
    /\ pg_pc = {}
    /\ pg_done = {}

\* The language-qualified fragment path of a source file.
FragmentPath(f, lang) ==
    IF lang = DEFAULT_LANG THEN <<f.name, ".html">> ELSE <<f.name, ".html", ".", lang>>

\* The source that is compiled for a source file in a language.
FragmentSource(f, lang) ==
    IF lang # DEFAULT_LANG /\ f.es THEN <<f.name, ".txt", ".", lang>> ELSE <<f.name, ".txt">>

FragmentTasks(f, lang) ==
    {k \in 1 .. Len(pg_tasks) :
        /\ pg_tasks[k].basename = "render_posts"
        /\ FragmentPath(f, lang) \in Range(pg_tasks[k].targets)}

PageTasksOf(f, lang) ==
    {k \in 1 .. Len(pg_tasks) :
        /\ pg_tasks[k].basename = "render_pages"
        /\ pg_tasks[k].actions[1].post = f.name
        /\ pg_tasks[k].actions[1].lang = lang}

\* C27: once both generators have run, every (source file, language) has
\* exactly one fragment task; its only target is the language-qualified
\* fragment path and it compiles the source of the language when that
\* exists, the default source otherwise; the pair has one page task, which
\* lists the fragment path in its file_dep; and a page task that has run
\* was run after the fragment task of its pair.
C27_FragmentBeforePage ==
    pg_pc = {"render_posts", "render_pages"} =>
        \A f \in pg_files, lang \in Range(dict_keys(pg_translations)) :
            /\ Cardinality(FragmentTasks(f, lang)) = 1
            /\ Cardinality({k \in 1 .. Len(pg_tasks) :
                              pg_tasks[k].basename = "render_posts"})
                  = Cardinality(pg_files) * Len(dict_keys(pg_translations))
            /\ \A k \in FragmentTasks(f, lang) :
                  /\ pg_tasks[k].targets = <<FragmentPath(f, lang)>>
                  /\ pg_tasks[k].actions[1].source = FragmentSource(f, lang)
                  /\ pg_tasks[k].actions[1].dest = FragmentPath(f, lang)
            /\ Cardinality(PageTasksOf(f, lang)) = 1
            /\ \A k \in PageTasksOf(f, lang) :
                  /\ FragmentPath(f, lang) \in Range(pg_tasks[k].file_dep)
                  /\ k \in pg_done => FragmentTasks(f, lang) \subseteq pg_done

\* The page of the translated post in es has been rendered, from the
\* fragment compiled from posts/p1.txt.es, while a page of the story has
\* not been rendered yet.
C27_Witness ==
    /\ pg_pc = {"render_posts", "render_pages"}
    /\ \E k \in PageTasksOf(PostFile(1), "es") : k \in pg_done
    /\ \E k \in FragmentTasks(PostFile(1), "es") :
          /\ k \in pg_done
          /\ pg_tasks[k].actions[1].source = <<"posts/p1", ".txt", ".", "es">>
    /\ StoryFile(1) \in pg_files
    /\ \E k \in PageTasksOf(StoryFile(1), "en") : k \notin pg_done

(***************************************************************************)
(* utils.get_theme_chain (utils.py 33-51) over the themes of a site, each  *)
(* with or without a parent file.                                          *)
(***************************************************************************)
\* The themes that have a directory, and a name that has none.
ThemeNames == {"site", "default", "base"}

MissingTheme == "gone"

\* get_theme_path(theme): the directory, or the exception.
get_theme_path(theme) ==
    IF theme \in ThemeNames THEN [path |-> <<"themes", "/", theme>>]
    ELSE [raised |-> "Exception"]

\* get_parent(theme_name): <<parent>>, <<>> for None, or the exception
\* of get_theme_path.
get_parent(parents, theme_name) ==
    IF "raised" \in DOMAIN get_theme_path(theme_name) THEN [raised |-> "Exception"]
    ELSE [parent |-> parents[theme_name]]

\* A loop that ends only at a theme without parent.
chain_ends_without_parent(parent, themes) == parent = <<>>

\* Line 48: if parent is None or parent in themes: break
chain_ends(parent, themes) == parent = <<>> \/ parent[1] \in Range(themes)

\* The chain never gets longer than the names there are.
MaxChain == 4

\* One turn of the while loop of get_theme_chain (lines 45-50), the
\* return of line 51 with the break.
GetThemeChainLoop ==
    /\ tc_pc = "loop"
    /\ Len(tc_themes) <= MaxChain
    /\ LET got == get_parent(tc_parents, tc_themes[Len(tc_themes)])
       IN  IF "raised" \in DOMAIN got
           THEN tc_pc' = "raised" /\ UNCHANGED tc_themes
           ELSE IF chain_ends(got.parent, tc_themes)
           THEN tc_pc' = "done" /\ UNCHANGED tc_themes
           ELSE tc_pc' = "loop" /\ tc_themes' = Append(tc_themes, got.parent[1])
    /\ UNCHANGED <<tc_parents, tc_theme>>
    /\ UNCHANGED notChain

\* get_theme_chain(theme) is called: themes = [theme].
InitChainVars ==
    /\ tc_parents \in [ThemeNames -> {<<>>} \cup {<<p>> : p \in ThemeNames \cup {MissingTheme}}]
    /\ tc_theme \in ThemeNames
    /\ tc_themes = <<tc_theme>>
    /\ tc_pc = "loop"

IdleChainVars ==
    /\ tc_parents = [t \in ThemeNames |-> <<>>]
    /\ tc_theme = "site"
    /\ tc_themes = <<"site">>
    /\ tc_pc = "done"

\* Every parent file names a theme that has a directory.
ParentsAreThemes == \A t \in ThemeNames : tc_parents[t] = <<>> \/ tc_parents[t][1] \in ThemeNames

\* C28: every call of get_theme_chain ends; when every declared parent is
\* a theme, a theme that is its own parent or parents that form a cycle
\* included, it ends by returning, and the list returned starts with the
\* theme asked for, holds no theme twice, and each next element is the
\* declared parent of the one before it.
C28_ThemeChainTerminates ==
    /\ <>(tc_pc \in {"done", "raised"})
    /\ [](ParentsAreThemes => tc_pc # "raised")
    /\ []((tc_pc = "done" /\ ParentsAreThemes) =>
            /\ tc_themes[1] = tc_theme
            /\ \A i, j \in 1 .. Len(tc_themes) : i # j => tc_themes[i] # tc_themes[j]
            /\ \A i \in 1 .. Len(tc_themes) - 1 :
                  tc_parents[tc_themes[i]] = <<tc_themes[i + 1]>>)

\* The parents form a cycle of three themes, and the call has returned
\* the three.
C28_Witness ==
    /\ tc_pc = "done"
    /\ tc_parents = [t \in ThemeNames |->
                        CASE t = "site" -> <<"default">>
                          [] t = "default" -> <<"base">>
                          [] OTHER -> <<"site">>]
    /\ tc_themes = <<"site", "default", "base">>

(***************************************************************************)
(* The indexes scan_posts leaves: posts_per_tag, posts_per_year and        *)
(* global_data.                                                            *)
(***************************************************************************)
\* How many times a name is in a list.
Occurrences(names, name) == Cardinality({i \in 1 .. Len(names) : names[i] = name})

\* C29: after a scan that completed, no post name is twice in a list of
\* posts_per_tag, every key of global_data is once in one list of
\* posts_per_year and in no other, and the names in posts_per_year are the
\* keys of global_data, which are the names of the posts of the timeline.
C29_IndexesHoldEachPostOnce ==
    sc_scanned =>
        LET names == {x.k : x \in Mapping(global_data)}
        IN  /\ \A t \in Mapping(posts_per_tag) :
                  \A name \in Range(t.v) : Occurrences(t.v, name) = 1
            /\ \A name \in names :
                  /\ Cardinality({y \in Mapping(posts_per_year) : name \in Range(y.v)}) = 1
                  /\ \A y \in Mapping(posts_per_year) : Occurrences(y.v, name) <= 1
            /\ UNION {Range(y.v) : y \in Mapping(posts_per_year)} = names
            /\ {sc_timeline[i].post_name : i \in 1 .. Len(sc_timeline)} = names

(***************************************************************************)
(* The dependencies between the categories: the task_dep of the sitemap    *)
(* task (nikola.py 1118-1132) and of the task 'all' (364-382), and an      *)
(* executor that runs a task once the tasks of its task_dep have run.      *)
(***************************************************************************)
\* gen_task_sitemap: "task_dep"
sitemap_task_dep ==
    <<"render_archive", "render_indexes", "render_pages", "render_posts", "render_rss",
      "render_sources", "render_tags">>

\* gen_tasks: the 'task_dep' of the task 'all'
all_task_dep ==
    <<"render_archive", "render_galleries", "render_indexes", "render_pages",
      "render_posts", "render_rss", "render_sources", "render_tags", "copy_assets",
      "copy_files", "sitemap", "redirect">>

\* The task_dep of the tasks of a category; no other generator declares one.
task_dep(category) ==
    CASE category = "sitemap" -> sitemap_task_dep
      [] category = "all" -> all_task_dep
      [] OTHER -> <<>>

\* The categories of the tasks gen_tasks yields that take part in a build.
BuildCategories == Range(all_task_dep) \cup {"all"}

RenderingCategories ==
    {"render_pages", "render_posts", "render_sources", "render_indexes", "render_archive",
     "render_tags", "render_rss", "render_galleries"}

\* The categories whose generator yields one task or two in the sites of
\* the model; the others yield one.
MaxTasksPerCategory == 2

ManyTaskCategories == {"render_posts", "render_galleries"}

TasksOf(category) == {<<category, n>> : n \in 1 .. ex_counts[category]}

\* All tasks of a category have run.
CategoryDone(category, done) == TasksOf(category) \subseteq done

\* The executor runs a task that has not run and whose task_dep have.
ExecutorRunTask ==
    /\ \E category \in BuildCategories :
          \E t \in TasksOf(category) \ ex_done :
              /\ \A dep \in Range(task_dep(category)) : CategoryDone(dep, ex_done)
              /\ ex_done' = ex_done \cup {t}
    /\ UNCHANGED ex_counts
    /\ UNCHANGED notEx

InitExVars ==
    /\ ex_counts \in {c \in [BuildCategories -> 1 .. MaxTasksPerCategory] :
                        \A category \in BuildCategories \ ManyTaskCategories :
                            c[category] = 1}
    /\ ex_done = {}

IdleExVars ==
    /\ ex_counts = [category \in BuildCategories |-> 1]
    /\ ex_done = {}

\* C22: in every step in which the executor runs the sitemap task, all
\* tasks of every rendering category (render_pages, render_posts,
\* render_sources, render_indexes, render_archive, render_tags, render_rss
\* and render_galleries) have run.
C22_SitemapAfterRendering ==
    [][(<<"sitemap", 1>> \in ex_done' /\ <<"sitemap", 1>> \notin ex_done)
          => \A category \in RenderingCategories : CategoryDone(category, ex_done)]_vars

(***************************************************************************)
(* The specifications: one per component, the other components idle.       *)
(***************************************************************************)
InitFP == InitFPVars /\ IdleRLVars /\ IdlePathVars /\ IdleCopyVars /\ IdleGalVars
              /\ IdleSiteVars
              /\ IdlePostVars /\ IdleScanVars /\ IdleGenVars /\ IdleCompVars /\ IdleSenVars /\ IdleExVars /\ IdleTagVars /\ IdlePageVars /\ IdleChainVars

SpecFP == InitFP /\ [][StepFP]_vars

SpecFPOrder == InitFP /\ [][StepFPOrder]_vars

InitRelLink == InitFPVars /\ InitRLVars /\ IdlePathVars /\ IdleCopyVars /\ IdleGalVars
              /\ IdleSiteVars
              /\ IdlePostVars /\ IdleScanVars /\ IdleGenVars /\ IdleCompVars /\ IdleSenVars /\ IdleExVars /\ IdleTagVars /\ IdlePageVars /\ IdleChainVars

SpecRelLink == InitRelLink /\ [][RelLinkCall]_vars

InitPath == InitFPVars /\ IdleRLVars /\ InitPathVars /\ IdleCopyVars /\ IdleGalVars
              /\ IdleSiteVars
              /\ IdlePostVars /\ IdleScanVars /\ IdleGenVars /\ IdleCompVars /\ IdleSenVars /\ IdleExVars /\ IdleTagVars /\ IdlePageVars /\ IdleChainVars

SpecPath == InitPath /\ [][PathCall]_vars

InitCopy == InitFPVars /\ IdleRLVars /\ IdlePathVars /\ InitCopyVars /\ IdleGalVars
              /\ IdleSiteVars
              /\ IdlePostVars /\ IdleScanVars /\ IdleGenVars /\ IdleCompVars /\ IdleSenVars /\ IdleExVars /\ IdleTagVars /\ IdlePageVars /\ IdleChainVars

SpecCopy == InitCopy /\ [][GenTaskCopyFiles]_vars

InitGallery == InitFPVars /\ IdleRLVars /\ IdlePathVars /\ IdleCopyVars /\ InitGalVars
              /\ IdleSiteVars
              /\ IdlePostVars /\ IdleScanVars /\ IdleGenVars /\ IdleCompVars /\ IdleSenVars /\ IdleExVars /\ IdleTagVars /\ IdlePageVars /\ IdleChainVars

SpecGallery == InitGallery /\ [][StepGallery]_vars

InitIndexes == InitFPVars /\ IdleRLVars /\ IdlePathVars /\ IdleCopyVars /\ IdleGalVars
               /\ InitSiteVars
              /\ IdlePostVars /\ IdleScanVars /\ IdleGenVars /\ IdleCompVars /\ IdleSenVars /\ IdleExVars /\ IdleTagVars /\ IdlePageVars /\ IdleChainVars

SpecIndexes == InitIndexes /\ [][StepIndexes]_vars

InitPost == InitFPVars /\ IdleRLVars /\ IdlePathVars /\ IdleCopyVars /\ IdleGalVars
              /\ IdleSiteVars
              /\ InitPostVars /\ IdleScanVars /\ IdleGenVars /\ IdleCompVars /\ IdleSenVars /\ IdleExVars /\ IdleTagVars /\ IdlePageVars /\ IdleChainVars

SpecPost == InitPost /\ [][PostInit]_vars

InitScan == InitFPVars /\ IdleRLVars /\ IdlePathVars /\ IdleCopyVars /\ IdleGalVars
              /\ IdleSiteVars
              /\ IdlePostVars /\ InitScanVars /\ IdleGenVars /\ IdleCompVars /\ IdleSenVars /\ IdleExVars /\ IdleTagVars /\ IdlePageVars /\ IdleChainVars

SpecScan == InitScan /\ [][StepScan]_vars

InitGenTasks == InitFPVars /\ IdleRLVars /\ IdlePathVars /\ IdleCopyVars /\ IdleGalVars
              /\ IdleSiteVars
              /\ IdlePostVars /\ IdleScanVars /\ InitGenVars /\ IdleCompVars /\ IdleSenVars /\ IdleExVars /\ IdleTagVars /\ IdlePageVars /\ IdleChainVars

SpecGenTasks == InitGenTasks /\ [][StepGenTasks]_vars

InitCompiler == InitFPVars /\ IdleRLVars /\ IdlePathVars /\ IdleCopyVars /\ IdleGalVars
              /\ IdleSiteVars
              /\ IdlePostVars /\ IdleScanVars /\ IdleGenVars /\ InitCompVars /\ IdleSenVars /\ IdleExVars /\ IdleTagVars /\ IdlePageVars /\ IdleChainVars

SpecCompiler == InitCompiler /\ [][CompileHtmlGetterCall]_vars

InitSentinels == InitFPVars /\ IdleRLVars /\ IdlePathVars /\ IdleCopyVars /\ IdleGalVars
              /\ IdleSiteVars
              /\ IdlePostVars /\ IdleScanVars /\ IdleGenVars /\ IdleCompVars /\ InitSenVars /\ IdleExVars /\ IdleTagVars /\ IdlePageVars /\ IdleChainVars

SpecSentinels == InitSentinels /\ [][GenTaskCopyLike]_vars

InitExecutor == InitFPVars /\ IdleRLVars /\ IdlePathVars /\ IdleCopyVars /\ IdleGalVars
              /\ IdleSiteVars
              /\ IdlePostVars /\ IdleScanVars /\ IdleGenVars /\ IdleCompVars /\ IdleSenVars /\ InitExVars /\ IdleTagVars /\ IdlePageVars /\ IdleChainVars

SpecExecutor == InitExecutor /\ [][ExecutorRunTask]_vars

InitTags == InitFPVars /\ IdleRLVars /\ IdlePathVars /\ IdleCopyVars /\ IdleGalVars
              /\ IdleSiteVars
              /\ IdlePostVars /\ IdleScanVars /\ IdleGenVars /\ IdleCompVars /\ IdleSenVars /\ IdleExVars /\ InitTagVars /\ IdlePageVars /\ IdleChainVars

SpecTags == InitTags /\ [][StepTags]_vars

InitPages == InitFPVars /\ IdleRLVars /\ IdlePathVars /\ IdleCopyVars /\ IdleGalVars
              /\ IdleSiteVars
              /\ IdlePostVars /\ IdleScanVars /\ IdleGenVars /\ IdleCompVars /\ IdleSenVars /\ IdleExVars /\ IdleTagVars /\ InitPageVars /\ IdleChainVars

SpecPages == InitPages /\ [][StepPages]_vars

InitThemeChain == InitFPVars /\ IdleRLVars /\ IdlePathVars /\ IdleCopyVars /\ IdleGalVars
              /\ IdleSiteVars
              /\ IdlePostVars /\ IdleScanVars /\ IdleGenVars /\ IdleCompVars /\ IdleSenVars /\ IdleExVars /\ IdleTagVars /\ IdlePageVars /\ InitChainVars

\* The call runs on: a turn of the loop that can be taken is taken.
SpecThemeChain == InitThemeChain /\ [][GetThemeChainLoop]_vars /\ WF_vars(GetThemeChainLoop)

====
